---- MODULE Spec2Model ----
(***************************************************************************)
(* Verification model of the dynamic frame solver of timber                *)
(* (src/src/timber/engine.py): the Model data (points, members with their  *)
(* mutable failure state, loads, supports), the assembler, the load        *)
(* evaluator, the time-stepping loop of solve() and the failure detector.  *)
(*                                                                         *)
(* Numbers.  Floats are carried as integers in SI units (m, s, kg, N);     *)
(* every non-finite float (nan, +inf, -inf) is the single value NaN, which *)
(* the code treats alike wherever it tests them (isnan/isinf together).    *)
(* Stresses and strengths are counted in units of a third of the           *)
(* stress-check threshold (1e-12 Pa is 3 units).  The model covers runs    *)
(* with damping_ratio = 0 (alpha = beta = 0, so the damping matrix is      *)
(* zero), an explicit gravity argument, and loads whose time_function is   *)
(* None, "constant", "ramp" or "impulse".                                  *)
(*                                                                         *)
(* Linear algebra.  The lumped mass matrix is diagonal and is carried      *)
(* exactly.  The product of the member stiffness with the displacement     *)
(* (a 12x12 rotated beam matrix per member) is outside the arithmetic of   *)
(* the model: where at least one member contributes stiffness and the      *)
(* displacement of its end points is not zero, that product is an input    *)
(* drawn from ElasticVals, and the member end forces are inputs drawn from *)
(* ForceCases.  Everything else is computed as the code computes it.       *)
(***************************************************************************)
EXTENDS Integers, Sequences, FiniteSets, TLC

VARIABLES
    points,      \* model.points   : [0..n-1 -> Point]
    members,     \* model.members  : [0..k-1 -> Member] (failure state inside)
    loads,       \* model.loads    : Seq(Load)
    supports,    \* model.supports : Seq(Support)
    pc,          \* "idle" | "running" | "returned" | "raised"
    calls,       \* number of solve() calls (of requests) started so far
    args,        \* arguments of the current/last solve() call
    t_idx,       \* index of the next entry of time_steps to run
    x,           \* displacement vector carried into the next step
    v,           \* velocity vector carried into the next step
    frames,      \* frames appended so far (the list `frames`)
    broken_members_this_step, \* the cumulative list of that name in solve()
    loc,         \* locals of the last loop iteration (assemblies, x_new, ...)
    result,      \* the Results returned by the last call
    pre,         \* the model as it was when the current/last call started
    unit_system, \* timber.units._unit_manager.system, a process global
    other,       \* a second solve() run, where a specification has one
    db           \* the tables sheets, elements and actions of the web app

vars == <<points, members, loads, supports, pc, calls, args, t_idx, x, v,
          frames, broken_members_this_step, loc, result, pre, unit_system,
          other, db>>

----------------------------------------------------------------------------
(* Bounds of the model *)

MaxSimTime == 2
MaxCalls == 2
MaxStress == 3

MaxDuration == 2

MaxRequests == 4

MaxSheetId == 3

----------------------------------------------------------------------------
(* Float arithmetic *)

NaN == 2^30

Fin(a) == a # NaN

Abs(a) == IF a < 0 THEN 0 - a ELSE a

FAdd(a, b) == IF a = NaN \/ b = NaN THEN NaN ELSE a + b

FSub(a, b) == IF a = NaN \/ b = NaN THEN NaN ELSE a - b

FMul(a, b) == IF a = NaN \/ b = NaN THEN NaN ELSE a * b

\* a / b on numpy floats: x/0 is inf or nan (a warning, no exception);
\* a finite quotient is rounded toward zero onto the integer grid.
FDiv(a, b) ==
    IF a = NaN \/ b = NaN \/ b = 0 THEN NaN
    ELSE IF (a < 0) = (b < 0) THEN Abs(a) \div Abs(b)
    ELSE 0 - (Abs(a) \div Abs(b))

Max(a, b) == IF a >= b THEN a ELSE b

\* an array / a set built once: the value of f, evaluated in full
Vec(f) == IF f = <<>> THEN f ELSE f

SetOf(s) == IF s = {} THEN s ELSE s

ISqrt(n) == CHOOSE r \in 0..n : r * r <= n /\ (r + 1) * (r + 1) > n

----------------------------------------------------------------------------
(* Program constants *)

MAX_VELOCITY == 10000
MAX_DISPLACEMENT == 1000
RUNAWAY_DISPLACEMENT == 1000000
STRESS_CHECK_THRESHOLD == 3
MAX_MEMBER_LENGTH == 1000000
FORCE_MAX_LENGTH == 1000
FLOOR_ROT_INERTIA_INV == 1000000

\* the tolerance 1e-10 s of the time step filter, in units of the rounding
\* error of a time step
TIME_TOLERANCE == 2

\* the spring value 1e12 N/m of a constrained DOF, in units of 1e3 N/m
PENALTY_STIFFNESS == 1000000000

NoTime == 0 - 1            \* break_time = None

Intact == [is_broken |-> FALSE, break_time |-> NoTime, failure_mode |-> "None"]

FailureState(m) ==
    [is_broken |-> m.is_broken, break_time |-> m.break_time,
     failure_mode |-> m.failure_mode]

FailureModes == {"tensile", "compressive", "shear", "bending"}

----------------------------------------------------------------------------
(* Vectors over the degrees of freedom: 6 per point, index i*6 + j *)

NPoints(pts) == Cardinality(DOMAIN pts)

Dofs(pts) == 0..(6 * NPoints(pts) - 1)

ZeroVec(pts) == Vec([d \in Dofs(pts) |-> 0])

\* point_id_to_idx = {p.id: i for i, p in enumerate(model.points)}:
\* a later point with the same id replaces an earlier one.
HasPoint(pts, id) == \E i \in DOMAIN pts : pts[i].id = id

PointIdx(pts, id) ==
    CHOOSE i \in DOMAIN pts :
        pts[i].id = id /\ \A j \in DOMAIN pts : pts[j].id = id => j <= i

RangeOf(s) == {s[i] : i \in DOMAIN s}

\* sum of f[i] over the indices of a sequence, in list order
RECURSIVE FSumSeq(_, _)
FSumSeq(s, n) == IF n = 0 THEN 0 ELSE FAdd(FSumSeq(s, n - 1), s[n])

\* sum of f[0..hi] for a function f on 0..hi, in index order
RECURSIVE FSumFun(_, _)
FSumFun(f, hi) == IF hi < 0 THEN 0 ELSE FAdd(FSumFun(f, hi - 1), f[hi])

----------------------------------------------------------------------------
(* Member geometry in the current (displaced) configuration *)

CurrentPositions(pts, xv) ==
    Vec([i \in DOMAIN pts |->
        <<FAdd(pts[i].x, xv[i * 6]), FAdd(pts[i].y, xv[i * 6 + 1]),
          FAdd(pts[i].z, xv[i * 6 + 2])>>])

\* L = (dx**2 + dy**2 + dz**2) ** 0.5; a non-finite component gives a
\* non-finite L.  Exact for a member along a coordinate axis.
MemberLength(start_pos, end_pos) ==
    LET dx == FSub(end_pos[1], start_pos[1])
        dy == FSub(end_pos[2], start_pos[2])
        dz == FSub(end_pos[3], start_pos[3])
    IN  IF dx = NaN \/ dy = NaN \/ dz = NaN THEN NaN
        ELSE IF dx = 0 /\ dz = 0 THEN Abs(dy)
        ELSE IF dy = 0 /\ dz = 0 THEN Abs(dx)
        ELSE IF dx = 0 /\ dy = 0 THEN Abs(dz)
        ELSE ISqrt(dx * dx + dy * dy + dz * dz)

\* an assembly loop that does not look at is_broken
ResolvesThoughBroken(pts, m) ==
    HasPoint(pts, m.start) /\ HasPoint(pts, m.end)

\* the member is not skipped by the first two tests of the assembly loop
Resolves(pts, m) ==
    ~m.is_broken /\ HasPoint(pts, m.start) /\ HasPoint(pts, m.end)

CurrentLength(pts, m, xv) ==
    LET cur == CurrentPositions(pts, xv)
    IN  MemberLength(cur[PointIdx(pts, m.start)], cur[PointIdx(pts, m.end)])

\* _local_stiffness raises ValueError for a NaN or infinite length
\* (L <= 0 cannot happen after the L == 0 test): the error leaves
\* _assemble_matrices.
AssembleRaises(pts, mem, xv) ==
    \E i \in DOMAIN mem :
        Resolves(pts, mem[i]) /\ CurrentLength(pts, mem[i], xv) = NaN

----------------------------------------------------------------------------
(* _assemble_matrices *)

\* members that pass every skip test: they add their mass to both end nodes
MassMembers(pts, mem, xv) ==
    SetOf({i \in DOMAIN mem :
        Resolves(pts, mem[i]) /\ CurrentLength(pts, mem[i], xv) # 0})

\* members whose k_global is added to K_full and is not the zero matrix
\* that _local_stiffness returns for L > 1e6
StiffMembers(pts, mem, xv) ==
    SetOf({i \in MassMembers(pts, mem, xv) :
        CurrentLength(pts, mem[i], xv) <= MAX_MEMBER_LENGTH})

\* members that put their end points into connected_nodes
ConnectingMembers(pts, mem) ==
    SetOf({i \in DOMAIN mem : Resolves(pts, mem[i])})

MassPerNode(pts, m, xv) ==
    FDiv(FMul(FMul(m.density, m.A), CurrentLength(pts, m, xv)), 2)

NodalMasses(pts, mem, xv) ==
    Vec([i \in DOMAIN pts |->
        LET share == Vec([k \in DOMAIN mem |->
                IF k \in MassMembers(pts, mem, xv)
                THEN (IF PointIdx(pts, mem[k].start) = i
                      THEN MassPerNode(pts, mem[k], xv) ELSE 0)
                   + (IF PointIdx(pts, mem[k].end) = i
                      THEN MassPerNode(pts, mem[k], xv) ELSE 0)
                ELSE 0])
            fromMembers == FSumFun(share, Cardinality(DOMAIN mem) - 1)
        IN  IF pts[i].mass > 0 THEN fromMembers + pts[i].mass
            ELSE fromMembers])

\* diagonal of M_full as a fraction num/den: a node with mass gets m_val on
\* all six DOFs (max(m_val, 1e-6) = m_val on the rotations), an isolated
\* node 1.0 on the translations and 1e-6 on the rotations
MassDiag(pts, masses) ==
    Vec([d \in Dofs(pts) |->
        LET i == d \div 6
            j == d % 6
        IN  IF masses[i] > 0 THEN [num |-> masses[i], den |-> 1]
            ELSE IF j < 3 THEN [num |-> 1, den |-> 1]
            ELSE [num |-> 1, den |-> FLOOR_ROT_INERTIA_INV]])

\* F_ext: the base components of every load on an existing point
BaseLoadVector(pts, lds) ==
    Vec([d \in Dofs(pts) |->
        FSumSeq(Vec([k \in 1..Len(lds) |->
                    IF HasPoint(pts, lds[k].point)
                       /\ PointIdx(pts, lds[k].point) = d \div 6
                    THEN lds[k].f[(d % 6) + 1] ELSE 0]), Len(lds))])

\* a constraint list that holds all six DOFs of every supported point
RECURSIVE FlagsIgnored(_, _, _)
FlagsIgnored(pts, sups, n) ==
    IF n = 0 THEN <<>>
    ELSE FlagsIgnored(pts, sups, n - 1)
         \o (IF HasPoint(pts, sups[n].point)
             THEN [k \in 1..6 |-> PointIdx(pts, sups[n].point) * 6 + k - 1]
             ELSE <<>>)

\* constrained_dofs, in the order the supports and their flags are listed
RECURSIVE ConstrainedDofs(_, _, _)
ConstrainedDofs(pts, sups, n) ==
    IF n = 0 THEN <<>>
    ELSE LET sup == sups[n]
             own == IF HasPoint(pts, sup.point)
                    THEN LET base == PointIdx(pts, sup.point) * 6
                         IN  Vec([k \in 1..6 |-> base + k - 1])
                    ELSE <<>>
         IN ConstrainedDofs(pts, sups, n - 1)
             \o (IF own = <<>> THEN <<>>
                 ELSE SelectSeq(own, LAMBDA c : sup.flags[(c % 6) + 1]))

Assemble(pts, mem, lds, sups, xv) ==
    LET masses == NodalMasses(pts, mem, xv)
        cdofs == ConstrainedDofs(pts, sups, Len(sups))
    IN  [stiff |-> StiffMembers(pts, mem, xv),
         massive |-> MassMembers(pts, mem, xv),
         connecting |-> ConnectingMembers(pts, mem),
         nodal_masses |-> masses,
         M_diag |-> MassDiag(pts, masses),
         F_ext |-> BaseLoadVector(pts, lds),
         constrained_dofs |-> cdofs,
         free_dofs |-> Dofs(pts) \ RangeOf(cdofs)]

----------------------------------------------------------------------------
(* _is_unconstrained_system *)

\* a classification by the flags instead of by the records
NoFlagSet(sups) ==
    \A k \in 1..Len(sups) : \A j \in 1..6 : ~sups[k].flags[j]

IsUnconstrainedSystem(sups) == Len(sups) = 0

----------------------------------------------------------------------------
(* _get_load_at_time *)

\* base * factor for the ramp factor (time - start_time) / duration; the
\* quotient 0.0 / 0.0 of numpy floats is nan
RampScale(base, num, den) ==
    IF den = 0 THEN NaN ELSE FDiv(FMul(base, num), den)

LoadAtTime(load, time) ==
    IF load.time_function = "None" \/ load.time_function = "constant"
    THEN load.f
    ELSE IF load.time_function = "ramp"
    THEN IF time < load.start_time THEN Vec([k \in 1..6 |-> 0])
         ELSE IF time > load.start_time + load.duration THEN load.f
         ELSE Vec([k \in 1..6 |->
                 RampScale(load.f[k], time - load.start_time, load.duration)])
    ELSE IF load.time_function = "impulse"
    THEN IF load.start_time <= time /\ time <= load.start_time + load.duration
         THEN load.f
         ELSE Vec([k \in 1..6 |-> 0])
    ELSE load.f     \* the return at the end, for any other time_function

----------------------------------------------------------------------------
(* _calculate_member_forces: which members get an entry *)

\* not broken, both points known, and the current length L passes
\* L == 0, L > 1e6, L > 1e3 or L < 1e-6; a NaN length passes those tests
\* and ends in the ValueError of _local_stiffness, which is caught
HasForceEntry(pts, m, displacements) ==
    /\ Resolves(pts, m)
    /\ LET L == CurrentLength(pts, m, displacements)
       IN  L # NaN /\ L # 0 /\ L <= FORCE_MAX_LENGTH

MemberDofs(pts, m) ==
    LET s == PointIdx(pts, m.start) * 6
        e == PointIdx(pts, m.end) * 6
    IN  (s..(s + 5)) \cup (e..(e + 5))

ZeroForces == [axial |-> 0, shear |-> 0, moment |-> 0]

NaNForces == [axial |-> NaN, shear |-> NaN, moment |-> NaN]

\* f_local = k_local @ (T @ u): zero for u = 0 and nan as soon as one entry
\* of u is not finite; otherwise the value supplied for the member
MemberForces(pts, mem, displacements, supplied) ==
    Vec([i \in {k \in DOMAIN mem :
                    HasForceEntry(pts, mem[k], displacements)} |->
        LET ds == MemberDofs(pts, mem[i])
        IN  IF \E d \in ds : displacements[d] = NaN THEN NaNForces
            ELSE IF \A d \in ds : displacements[d] = 0 THEN ZeroForces
            ELSE supplied[i]])

----------------------------------------------------------------------------
(* _calculate_member_stresses *)

ZeroIfNotFinite(a) == IF a = NaN THEN 0 ELSE a

AxialStress(m, forces) ==
    IF m.A # 0 THEN ZeroIfNotFinite(FDiv(forces.axial, m.A)) ELSE 0

\* shear_force / (A * 1.5)
ShearStress(m, forces) ==
    IF m.A # 0
    THEN ZeroIfNotFinite(FDiv(FMul(forces.shear, 2), FMul(m.A, 3)))
    ELSE 0

\* max(abs(M*c_y/Iz), abs(M*c_z/Iy)), 0.0 when it is not finite.  With
\* Iy = 0 the second quotient is inf (the whole maximum is dropped to 0)
\* unless M*c_z = 0, when it is nan and Python's max keeps the first.
BendingStress(m, forces) ==
    IF m.A > 0 /\ m.Iz > 0
    THEN LET bz == FDiv(FMul(forces.moment, m.y_max), m.Iz)
             by == FDiv(FMul(forces.moment, m.z_max), m.Iy)
         IN  IF bz = NaN THEN 0
             ELSE IF m.Iy = 0
                  THEN (IF FMul(forces.moment, m.z_max) = 0
                        THEN Abs(bz) ELSE 0)
             ELSE IF by = NaN THEN 0
             ELSE Max(Abs(bz), Abs(by))
    ELSE 0

MemberStresses(mem, member_forces) ==
    Vec([i \in {k \in DOMAIN member_forces : ~mem[k].is_broken} |->
        LET axial_stress == AxialStress(mem[i], member_forces[i])
        IN  [tensile |-> Max(axial_stress, 0),
             compressive |-> Max(0 - axial_stress, 0),
             shear |-> Abs(ShearStress(mem[i], member_forces[i])),
             bending |-> Abs(BendingStress(mem[i], member_forces[i]))]])

----------------------------------------------------------------------------
(* _check_member_failure *)

\* a comparison ratio >= 1.0
RatioAtLeastOne(stress, strength) ==
    /\ strength # 0
    /\ IF strength > 0 THEN stress >= strength ELSE stress <= strength

\* a ratio without the guard against a zero strength
UnguardedRatio(stress, strength) == [num |-> stress, den |-> strength]

\* "stress / strength if strength != 0 else 0.0", as a fraction num/den
Ratio(stress, strength) ==
    IF strength # 0 THEN [num |-> stress, den |-> strength]
    ELSE [num |-> 0, den |-> 1]

\* the fraction is a finite float: x / 0.0 is inf or nan
FiniteRatio(r) == r.num # NaN /\ r.den # NaN /\ r.den # 0

\* ratio > 1.0: false for nan
ExceedsOne(r) ==
    /\ r.num # NaN /\ r.den # NaN
    /\ IF r.den > 0 THEN r.num > r.den
       ELSE IF r.den < 0 THEN r.num < r.den
       ELSE r.num > 0

\* stress / strength > 1.0, with ratio 0.0 for a zero strength
RatioExceedsOne(stress, strength) == ExceedsOne(Ratio(stress, strength))

AllBelowThreshold(stresses) ==
    /\ Abs(stresses.tensile) < STRESS_CHECK_THRESHOLD
    /\ Abs(stresses.compressive) < STRESS_CHECK_THRESHOLD
    /\ Abs(stresses.shear) < STRESS_CHECK_THRESHOLD
    /\ Abs(stresses.bending) < STRESS_CHECK_THRESHOLD

\* member.is_broken = True; member.break_time = current_time;
\* member.failure_mode = the mode
Broken(m, current_time, mode) ==
    [m EXCEPT !.is_broken = TRUE, !.break_time = current_time,
              !.failure_mode = mode]

CheckOneMember(m, stresses, current_time) ==
    IF AllBelowThreshold(stresses) THEN m
    ELSE IF RatioExceedsOne(stresses.tensile, m.tensile_strength)
    THEN Broken(m, current_time, "tensile")
    ELSE IF RatioExceedsOne(stresses.compressive, m.compressive_strength)
    THEN Broken(m, current_time, "compressive")
    ELSE IF RatioExceedsOne(stresses.shear, m.shear_strength)
    THEN Broken(m, current_time, "shear")
    ELSE IF RatioExceedsOne(stresses.bending, m.bending_strength)
    THEN Broken(m, current_time, "bending")
    ELSE m

\* a check that stamps the current time on members that are already broken
CheckMemberFailureRestamps(mem, member_stresses, current_time) ==
    Vec([i \in DOMAIN mem |->
        IF mem[i].is_broken
        THEN Broken(mem[i], current_time, mem[i].failure_mode)
        ELSE IF i \notin DOMAIN member_stresses THEN mem[i]
        ELSE CheckOneMember(mem[i], member_stresses[i], current_time)])

\* the members after the call (their failure state is written in place)
CheckMemberFailure(mem, member_stresses, current_time) ==
    Vec([i \in DOMAIN mem |->
        IF mem[i].is_broken \/ i \notin DOMAIN member_stresses THEN mem[i]
        ELSE CheckOneMember(mem[i], member_stresses[i], current_time)])

\* a list of every broken member, not only of those that broke in this call
EveryBroken(before, after, n) ==
    SelectSeq([k \in 1..n |-> k - 1], LAMBDA k : after[k].is_broken)

\* the returned list newly_broken, in member order
RECURSIVE NewlyBroken(_, _, _)
NewlyBroken(before, after, n) ==
    IF n = 0 THEN <<>>
    ELSE NewlyBroken(before, after, n - 1)
         \o (IF after[n - 1].is_broken /\ ~before[n - 1].is_broken
             THEN <<n - 1>> ELSE <<>>)

----------------------------------------------------------------------------
(* solve(): the pieces of one loop iteration *)

\* np.arange(0, simulation_time + step, step), then the entries
\* <= simulation_time + 1e-10
TimeSteps(step, simulation_time) ==
    LET stop == simulation_time + step
        n == IF stop <= 0 THEN 0 ELSE (stop + step - 1) \div step
    IN  SelectSeq(Vec([k \in 1..n |-> (k - 1) * step]),
                  LAMBDA t : t <= simulation_time)

\* a solve() without the reset loop
ResetMembersSkipped(mem) == mem

\* the reset at the top of solve()
ResetMembers(mem) ==
    Vec([i \in DOMAIN mem |->
        [mem[i] EXCEPT !.is_broken = FALSE, !.break_time = NoTime,
                       !.failure_mode = "None"]])

\* x after "Apply initial displacements if provided"
InitialX(pts, initial_displacements) ==
    Vec([d \in Dofs(pts) |->
        IF \E k \in 1..Len(initial_displacements) :
              /\ HasPoint(pts, initial_displacements[k].point)
              /\ PointIdx(pts, initial_displacements[k].point) = d \div 6
        THEN LET k == CHOOSE k \in 1..Len(initial_displacements) :
                        /\ HasPoint(pts, initial_displacements[k].point)
                        /\ PointIdx(pts, initial_displacements[k].point)
                              = d \div 6
             IN  initial_displacements[k].disp[(d % 6) + 1]
        ELSE 0])

\* the time-evaluated value added on top of F_ext, the base value not
\* taken off
LoadsAtTimeAdded(pts, lds, F_ext, t) ==
    Vec([d \in Dofs(pts) |->
        FAdd(F_ext[d],
             FSumSeq(Vec([k \in 1..Len(lds) |->
                        IF HasPoint(pts, lds[k].point)
                           /\ PointIdx(pts, lds[k].point) = d \div 6
                        THEN LoadAtTime(lds[k], t)[(d % 6) + 1]
                        ELSE 0]), Len(lds)))])

\* F_time before gravity: F_ext plus, per load on a known point,
\* (value at time t - base value)
LoadsAtTime(pts, lds, F_ext, t) ==
    Vec([d \in Dofs(pts) |->
        FAdd(F_ext[d],
             FSumSeq(Vec([k \in 1..Len(lds) |->
                        IF HasPoint(pts, lds[k].point)
                           /\ PointIdx(pts, lds[k].point) = d \div 6
                        THEN FSub(LoadAtTime(lds[k], t)[(d % 6) + 1],
                                  lds[k].f[(d % 6) + 1])
                        ELSE 0]), Len(lds)))])

\* a load vector that gets no weight
Weightless(pts, F, asm, g) == F

\* gravity on the y translation of every node with mass, unless constrained
WithGravity(pts, F, asm, g) ==
    Vec([d \in Dofs(pts) |->
        IF d % 6 = 1 /\ asm.nodal_masses[d \div 6] > 0
           /\ d \notin RangeOf(asm.constrained_dofs)
        THEN FAdd(F[d], 0 - FMul(asm.nodal_masses[d \div 6], g))
        ELSE F[d]])

\* an integration that leaves no DOF out
IntegratesEveryDof(pts, sups, asm) == Dofs(pts)

\* the DOFs of the system that is integrated: all of them on the full
\* system, the free ones on the reduced system
SystemDofs(pts, sups, asm) ==
    IF IsUnconstrainedSystem(sups) THEN Dofs(pts) ELSE asm.free_dofs

\* K @ x on the integrated system.  A matrix-vector product multiplies
\* every entry of x into every row, so one non-finite entry makes the whole
\* product nan.  A member whose end displacements are all zero adds
\* nothing; otherwise it adds the supplied value e and -e on the y
\* translations of its two ends.
StiffnessTimes(pts, mem, asm, S, xv, e) ==
    IF \E d \in S : xv[d] = NaN THEN Vec([d \in S |-> NaN])
    ELSE Vec([d \in S |->
            FSumFun(Vec([k \in DOMAIN mem |->
                IF k \in asm.stiff
                   /\ \E c \in MemberDofs(pts, mem[k]) \cap S : xv[c] # 0
                THEN (IF d = PointIdx(pts, mem[k].start) * 6 + 1 THEN e ELSE 0)
                   - (IF d = PointIdx(pts, mem[k].end) * 6 + 1 THEN e ELSE 0)
                ELSE 0]), Cardinality(DOMAIN mem) - 1)])

\* some member's stiffness meets a non-zero displacement: the product
\* K @ x is not determined by the model's arithmetic
NeedsElastic(pts, mem, asm, S, xv) ==
    /\ \A d \in S : xv[d] # NaN
    /\ \E k \in asm.stiff : \E c \in MemberDofs(pts, mem[k]) \cap S : xv[c] # 0

\* C @ v with C = alpha*M + beta*K = 0: zero, or nan when v is not finite
DampingTimes(S, vv) ==
    IF \E d \in S : vv[d] = NaN THEN Vec([d \in S |-> NaN])
    ELSE Vec([d \in S |-> 0])

\* a solve that finds no zero pivot
NeverSingular(M_diag, S) == FALSE

\* np.linalg.solve raises LinAlgError: the factorisation of M meets a pivot
\* that is exactly zero (before the right-hand side is looked at)
IsSingular(M_diag, S) == \E d \in S : M_diag[d].num = 0

\* f"Singular mass matrix at time {t}" for the float t
SingularIssue(t) == "Singular mass matrix at time " \o ToString(t) \o ".0"

\* np.linalg.solve(M, F_eff) for the diagonal M: the substitution sweeps
\* multiply every entry of the right-hand side into every row, so one
\* non-finite entry makes the whole solution nan
SolveDiagonal(M_diag, S, F_eff) ==
    IF \E d \in S : F_eff[d] = NaN THEN Vec([d \in S |-> NaN])
    ELSE Vec([d \in S |-> FDiv(FMul(F_eff[d], M_diag[d].den), M_diag[d].num)])

\* a, v_new, x_new as full-length vectors (semi-implicit Euler); the
\* entries outside the integrated system are 0 (_map_reduced_to_full)
Integrate(pts, mem, sups, asm, F_time, xv, vv, step, e) ==
    LET S == SystemDofs(pts, sups, asm)
        Kx == StiffnessTimes(pts, mem, asm, S, xv, e)
        Cv == DampingTimes(S, vv)
        F_eff == Vec([d \in S |-> FSub(FSub(F_time[d], Kx[d]), Cv[d])])
        a == IF IsSingular(asm.M_diag, S) THEN Vec([d \in S |-> 0])
             ELSE SolveDiagonal(asm.M_diag, S, F_eff)
        vn == Vec([d \in S |-> FAdd(vv[d], FMul(a[d], step))])
        xn == Vec([d \in S |-> FAdd(xv[d], FMul(vn[d], step))])
    IN  [a_full |-> Vec([d \in Dofs(pts) |-> IF d \in S THEN a[d] ELSE 0]),
         v_new |-> Vec([d \in Dofs(pts) |-> IF d \in S THEN vn[d] ELSE 0]),
         x_new |-> Vec([d \in Dofs(pts) |-> IF d \in S THEN xn[d] ELSE 0]),
         singular |-> IsSingular(asm.M_diag, S)]

\* K_full[c, c] * u for the penalty diagonal 1e12: 0 for u = 0, beyond the
\* range of the model's integers otherwise
PenaltyForce(u) ==
    IF u = NaN THEN NaN
    ELSE IF u = 0 THEN 0
    ELSE IF u > 0 THEN NaN - 1 ELSE 1 - NaN

\* a report of the internal force at every DOF, flagged or not
ReactionAtEveryDof(flagged, spoiled, x_new, d) ==
    IF spoiled THEN NaN
    ELSE IF d \in flagged THEN PenaltyForce(x_new[d]) ELSE x_new[d]

\* reactions_vec[d]: internal_forces[d] at a DOF whose flag is set, the 0.0
\* of np.zeros_like elsewhere.  One non-finite entry of x_new makes every
\* entry of K_full @ x_new nan.
ReactionAt(flagged, spoiled, x_new, d) ==
    IF d \in flagged
    THEN (IF spoiled THEN NaN ELSE PenaltyForce(x_new[d]))
    ELSE 0

\* "Calculate reactions at supports only"
Reactions(pts, mem, lds, sups, x_new) ==
    IF AssembleRaises(pts, mem, x_new)
    THEN [vec |-> ZeroVec(pts), issues |-> <<"Error calculating reactions">>]
    ELSE LET asm_new == Assemble(pts, mem, lds, sups, x_new)
             flagged == RangeOf(asm_new.constrained_dofs)
             spoiled == \E d \in Dofs(pts) : x_new[d] = NaN
             raw == Vec([d \in Dofs(pts) |->
                        ReactionAt(flagged, spoiled, x_new, d)])
         IN  IF \E d \in Dofs(pts) : raw[d] = NaN
             THEN [vec |-> ZeroVec(pts),
                   issues |-> <<"Numerical instability in reactions">>]
             ELSE [vec |-> raw, issues |-> <<>>]

NanToNum(vec) == Vec([d \in DOMAIN vec |-> IF vec[d] = NaN THEN 0 ELSE vec[d]])

Clip(vec, lim) ==
    Vec([d \in DOMAIN vec |->
        IF vec[d] > lim THEN lim
        ELSE IF vec[d] < 0 - lim THEN 0 - lim ELSE vec[d]])

HasNaN(vec) == \E d \in DOMAIN vec : vec[d] = NaN

Exceeds(vec, lim) == \E d \in DOMAIN vec : vec[d] # NaN /\ Abs(vec[d]) > lim

RECURSIVE MaxAbsUpTo(_, _)
MaxAbsUpTo(vec, hi) ==
    IF hi < 0 THEN 0 ELSE Max(MaxAbsUpTo(vec, hi - 1), Abs(vec[hi]))

\* "Check for numerical instabilities and limit extreme values" and the
\* runaway check, on the locals v_new and x_new
Limit(x_new, v_new) ==
    LET v1 == IF HasNaN(v_new) THEN NanToNum(v_new) ELSE v_new
        x1 == IF HasNaN(x_new) THEN NanToNum(x_new) ELSE x_new
        v2 == IF Exceeds(v1, MAX_VELOCITY) THEN Clip(v1, MAX_VELOCITY) ELSE v1
        x2 == IF Exceeds(x1, MAX_DISPLACEMENT)
              THEN Clip(x1, MAX_DISPLACEMENT) ELSE x1
        max_disp == MaxAbsUpTo(x2, Cardinality(DOMAIN x2) - 1)
    IN  [x_new |-> x2, v_new |-> v2, max_disp |-> max_disp,
         stop |-> max_disp > RUNAWAY_DISPLACEMENT,
         issues |->
            (IF HasNaN(v_new)
             THEN <<"Numerical instability in velocity">> ELSE <<>>)
            \o (IF HasNaN(x_new)
                THEN <<"Numerical instability in displacement">> ELSE <<>>)
            \o (IF Exceeds(v1, MAX_VELOCITY)
                THEN <<"Velocity limited">> ELSE <<>>)
            \o (IF Exceeds(x1, MAX_DISPLACEMENT)
                THEN <<"Displacement limited">> ELSE <<>>)
            \o (IF max_disp > RUNAWAY_DISPLACEMENT
                THEN <<"Very large displacements detected">> ELSE <<>>)]

\* positions per point index: the point's coordinates plus x_new
Positions(pts, x_new) == CurrentPositions(pts, x_new)

\* a first frame that keeps the computed velocities
VelocitiesAsComputed(pts, idx, v_new) == v_new

\* the velocities of the frame of loop index idx: "if t_idx == 0" every
\* point's tuple is replaced by six zeros
FrameVelocities(pts, idx, v_new) ==
    IF idx = 0 THEN ZeroVec(pts) ELSE v_new

\* a frame that writes the positions back into the points
PointsMoved(pts, x_new) ==
    [i \in DOMAIN pts |->
        [pts[i] EXCEPT !.x = FAdd(@, x_new[i * 6]),
                       !.y = FAdd(@, x_new[i * 6 + 1]),
                       !.z = FAdd(@, x_new[i * 6 + 2])]]

\* the model's points after the positions of a frame were computed: the
\* sums p.x + x_new[...] go into new tuples, the Point objects are only read
PointsAfterFrame(pts, x_new) == pts

\* the model's loads after _get_load_at_time was called on each of them:
\* the scaled components are returned as a new tuple
LoadsAfterStep(lds, t) == lds

\* Results(frames, unit_system=get_unit_manager().system, final_time,
\* total_frames): the global is read when the Results is built
Results(frs, time_steps, system) ==
    [valid |-> TRUE, frames |-> frs, unit_system |-> system,
     final_time |-> IF Len(time_steps) > 0
                    THEN time_steps[Len(time_steps)] ELSE 0,
     total_frames |-> Len(frs)]

EmptyResults(system) ==
    [valid |-> TRUE, frames |-> <<>>, unit_system |-> system,
     final_time |-> 0, total_frames |-> 0]

NoResults ==
    [valid |-> FALSE, frames |-> <<>>, unit_system |-> "None",
     final_time |-> 0, total_frames |-> 0]

NoLocals == [valid |-> FALSE]

----------------------------------------------------------------------------
(* Inputs *)

\* values of one row of K @ x that the model's arithmetic does not fix
ElasticVals == {0 - 2, 2}

\* end forces (f_local[0], f_local[1], f_local[5]) of a deformed member
ForceCases ==
    {[axial |-> 3, shear |-> 0, moment |-> 0],
     [axial |-> 0 - 1, shear |-> 6, moment |-> 3],
     [axial |-> 1, shear |-> 0, moment |-> 3]}

Point(id, y, m) == [id |-> id, x |-> 0, y |-> y, z |-> 0, mass |-> m]

FailureStateChoices ==
    {Intact,
     [is_broken |-> TRUE, break_time |-> 1, failure_mode |-> "shear"]}

\* a Member as the dataclass builds it: intact
Member(s, e, ts, cs, ss, bs) ==
    [start |-> s, end |-> e, density |-> 2, A |-> 1, Iy |-> 1, Iz |-> 1,
     y_max |-> 1, z_max |-> 1, E |-> 6, G |-> 2, J |-> 1,
     tensile_strength |-> ts, compressive_strength |-> cs,
     shear_strength |-> ss, bending_strength |-> bs,
     is_broken |-> FALSE, break_time |-> NoTime, failure_mode |-> "None"]

Load(p, f, tf, dur) ==
    [point |-> p, f |-> f, time_function |-> tf, start_time |-> 0,
     duration |-> dur]

Support(p, ux, uy, uz, rx, ry, rz) ==
    [point |-> p, flags |-> <<ux, uy, uz, rx, ry, rz>>]

Model(pts, mem, lds, sups) ==
    [points |-> pts, members |-> mem, loads |-> lds, supports |-> sups]

OnePoint == [i \in {0} |-> Point(1, 0, 0)]

TwoPoints == [i \in 0..1 |-> IF i = 0 THEN Point(1, 0, 0) ELSE Point(2, 2, 1)]

CoincidentPoints ==
    [i \in 0..1 |-> IF i = 0 THEN Point(1, 0, 0) ELSE Point(2, 0, 0)]

StrongMember == Member(1, 2, 2, 2, 3, 4)

WeakMember == Member(1, 2, 4, 0, 5, 2)

DanglingMember == Member(2, 3, 2, 2, 2, 2)

Torque == Load(1, <<0, 0, 0, 0, 0, 3>>, "impulse", 1)

Pull == Load(2, <<0, 0 - 4, 0, 0, 0, 0>>, "None", 0)

Ramp == Load(2, <<0, 0 - 4, 0, 0, 0, 0>>, "ramp", 0)

Stray == Load(3, <<0, 2, 0, 0, 0, 0>>, "constant", 0)

Pin == Support(1, TRUE, TRUE, TRUE, FALSE, FALSE, FALSE)

Idle == Support(1, FALSE, FALSE, FALSE, FALSE, FALSE, FALSE)

Hold == Support(2, TRUE, TRUE, TRUE, FALSE, FALSE, FALSE)

ModelChoices ==
    {Model(<<>>, [i \in {0} |-> StrongMember], <<>>, <<>>),
     Model(OnePoint, <<>>, <<Torque>>, <<>>),
     Model(OnePoint, <<>>, <<Torque>>, <<Idle>>),
     Model(TwoPoints,
           [i \in 0..1 |-> IF i = 0 THEN StrongMember ELSE WeakMember],
           <<Pull>>, <<Pin>>),
     Model(TwoPoints,
           [i \in 0..1 |-> IF i = 0 THEN WeakMember ELSE DanglingMember],
           <<Pull, Stray>>, <<>>),
     Model(TwoPoints, [i \in {0} |-> StrongMember], <<Ramp>>, <<Idle>>),
     Model(TwoPoints, [i \in {0} |-> StrongMember], <<Pull>>, <<Hold>>),
     Model(CoincidentPoints, [i \in {0} |-> StrongMember], <<>>, <<>>)}

ArgChoices ==
    {[step |-> st, simulation_time |-> sim, gravity |-> c.g,
      initial_displacements |-> c.init] :
        st \in 1..2, sim \in 0..MaxSimTime,
        c \in {[g |-> 10, init |-> <<>>],
               [g |-> 0,
                init |-> <<[point |-> 2, disp |-> <<0, 1, 0, 0, 0, 0>>]>>]}}

NoArgs ==
    [step |-> 1, simulation_time |-> 0, gravity |-> 0,
     initial_displacements |-> <<>>]

----------------------------------------------------------------------------
(* The state machine *)

\* no second run
NoOther == [active |-> FALSE]

\* the tables of the web application before any request: the engine does
\* not read or write them
NoDb == [sheets |-> <<>>, elements |-> <<>>, actions |-> <<>>]

Init ==
    /\ \E m \in ModelChoices :
        /\ points = m.points
        /\ members = m.members
        /\ loads = m.loads
        /\ supports = m.supports
    /\ pc = "idle"
    /\ calls = 0
    /\ args = NoArgs
    /\ t_idx = 0
    /\ x = <<>>
    /\ v = <<>>
    /\ frames = <<>>
    /\ broken_members_this_step = <<>>
    /\ loc = NoLocals
    /\ result = NoResults
    /\ pre = [points |-> points, members |-> members, loads |-> loads,
              supports |-> supports]
    /\ unit_system = "metric"
    /\ other = NoOther
    /\ db = NoDb

\* what a run of solve() works on: the Model it was given, its arguments
\* and its local variables, and the unit system of its process
Run ==
    [points |-> points, members |-> members, loads |-> loads,
     supports |-> supports, args |-> args, t_idx |-> t_idx, x |-> x, v |-> v,
     frames |-> frames,
     broken_members_this_step |-> broken_members_this_step,
     unit_system |-> unit_system]

\* solve(model, step, simulation_time, 0.0, initial_displacements,
\* gravity) up to the loop, for the arguments a, on the points pts and the
\* members mem, in a process whose unit system is system
Started(pts, mem, a, system) ==
    [args |-> a,
     x |-> IF pts = <<>> THEN <<>>
           ELSE InitialX(pts, a.initial_displacements),
     v |-> IF pts = <<>> THEN <<>> ELSE ZeroVec(pts),
     members |-> ResetMembers(mem),
     t_idx |-> 0,
     frames |-> <<>>,
     broken_members_this_step |-> <<>>,
     pc |-> IF pts = <<>> THEN "returned" ELSE "running",
     result |-> IF pts = <<>> THEN EmptyResults(system) ELSE NoResults]

\* the run of the state starts as st
Starts(st) ==
    /\ args' = st.args
    /\ x' = st.x
    /\ v' = st.v
    /\ calls' = calls + 1
    /\ pre' = [points |-> points, members |-> members, loads |-> loads,
              supports |-> supports]
    /\ members' = st.members
    /\ t_idx' = st.t_idx
    /\ frames' = st.frames
    /\ broken_members_this_step' = st.broken_members_this_step
    /\ loc' = NoLocals
    /\ pc' = st.pc
    /\ result' = st.result
    /\ UNCHANGED <<points, loads, supports>>

\* the caller starts solve()
SolveStart ==
    /\ pc \in {"idle", "returned", "raised"}
    /\ calls < MaxCalls
    /\ \E a \in ArgChoices :
          Starts(Started(points, members, a, unit_system))
    /\ UNCHANGED <<unit_system, other>>
    /\ UNCHANGED db

\* between calls the caller may write a member's failure fields
CallerSetsFailureState ==
    /\ pc \in {"idle", "returned", "raised"}
    /\ calls < MaxCalls
    /\ \E i \in DOMAIN members : \E fs \in FailureStateChoices :
        /\ FailureState(members[i]) # fs
        /\ members' = [members EXCEPT ![i] =
                          [@ EXCEPT !.is_broken = fs.is_broken,
                                    !.break_time = fs.break_time,
                                    !.failure_mode = fs.failure_mode]]
    /\ UNCHANGED <<points, loads, supports, pc, calls, args, t_idx, x, v,
                   frames, broken_members_this_step, loc, result, pre,
                   unit_system, other>>
    /\ UNCHANGED db

\* _assemble_matrices at the top of the loop raises: solve() is left by
\* the exception
Raises ==
    /\ pc' = "raised"
    /\ UNCHANGED <<points, members, loads, supports, calls, args, t_idx, x,
                   v, frames, broken_members_this_step, loc, result, pre>>

StepRaises ==
    /\ pc = "running"
    /\ t_idx < Len(TimeSteps(args.step, args.simulation_time))
    /\ AssembleRaises(points, members, x)
    /\ Raises
    /\ UNCHANGED <<unit_system, other>>
    /\ UNCHANGED db

\* members whose end forces the model's arithmetic does not fix: they get
\* an entry and a displacement of their ends is non-zero, none is nan
Needing(pts, mem, x_new) ==
    SetOf({i \in DOMAIN mem :
        /\ HasForceEntry(pts, mem[i], x_new)
        /\ \E d \in MemberDofs(pts, mem[i]) : x_new[d] # 0
        /\ \A d \in MemberDofs(pts, mem[i]) : x_new[d] # NaN})

\* what the assembly after the step saw, for the record of the step
AssembledAfter(pts, mem, x_new) ==
    IF AssembleRaises(pts, mem, x_new)
    THEN [raised |-> TRUE, stiff |-> {}, massive |-> {}, connecting |-> {}]
    ELSE [raised |-> FALSE,
          stiff |-> StiffMembers(pts, mem, x_new),
          massive |-> MassMembers(pts, mem, x_new),
          connecting |-> ConnectingMembers(pts, mem)]

\* the values as the display of the system would show them: under
\* "imperial" a newton is not a pound, here a pound is half a newton
DisplayValues(lds, system) ==
    IF system = "imperial"
    THEN Vec([k \in 1..Len(lds) |->
             [lds[k] EXCEPT !.f = Vec([j \in 1..6 |-> FMul(lds[k].f[j], 2)])]])
    ELSE lds

\* float(load.fx.value) ...: the number stored in the UnitQuantity, which
\* is in SI units; the unit manager is not asked
SIValues(lds, system) == lds

\* the outcome of one iteration for the run r: the Frame of the step,
\* "x = x_new; v = v_new", the limits and the runaway check
StepCommit(r, t, asm, integ, reac, forces, stresses, after, lim, bm) ==
    [members |-> after,
     broken_members_this_step |-> bm,
     frames |-> Append(r.frames,
          [time |-> t,
           positions |-> Positions(r.points, integ.x_new),
           velocities |-> FrameVelocities(r.points, r.t_idx, integ.v_new),
           accelerations |-> integ.a_full,
           reactions |-> reac.vec,
           member_forces |-> forces,
           member_stresses |-> stresses,
           broken_members |-> bm,
           issues |-> (IF integ.singular THEN <<SingularIssue(t)>> ELSE <<>>)
                      \o reac.issues \o lim.issues]),
     points |-> PointsAfterFrame(r.points, integ.x_new),
     loads |-> LoadsAfterStep(r.loads, t),
     x |-> integ.x_new,
     v |-> integ.v_new,
     t_idx |-> r.t_idx + 1,
     loc |-> [valid |-> TRUE, t |-> t,
              path |-> IF IsUnconstrainedSystem(r.supports)
                       THEN "full" ELSE "reduced",
              system |-> SystemDofs(r.points, r.supports, asm),
              asm |-> [stiff |-> asm.stiff, massive |-> asm.massive,
                       connecting |-> asm.connecting],
              asm_new |-> AssembledAfter(r.points, r.members, integ.x_new),
              pivots |-> SetOf({asm.M_diag[d].num :
                                 d \in SystemDofs(r.points, r.supports, asm)}),
              F_load |-> LoadsAtTime(r.points,
                                     SIValues(r.loads, r.unit_system),
                                     asm.F_ext, t),
              x_new |-> integ.x_new, v_new |-> integ.v_new,
              x_lim |-> lim.x_new, v_lim |-> lim.v_new,
              max_disp |-> lim.max_disp],
     stop |-> lim.stop]

\* member stresses and the failure check
StepCheck(r, t, asm, integ, reac, forces, stresses, after) ==
    StepCommit(r, t, asm, integ, reac, forces, stresses, after,
               Limit(integ.x_new, integ.v_new),
               r.broken_members_this_step
                  \o NewlyBroken(r.members, after,
                                 Cardinality(DOMAIN r.members)))

\* a step that checks failure first and computes the member forces and
\* stresses of the Frame afterwards
CheckBeforeForces(r, t, asm, integ, reac, forces, stresses) ==
    StepCheck(r, t, asm, integ, reac,
        Vec([i \in {k \in DOMAIN forces :
                ~CheckMemberFailure(r.members, stresses, t)[k].is_broken}
                |-> forces[i]]),
        Vec([i \in {k \in DOMAIN stresses :
                ~CheckMemberFailure(r.members, stresses, t)[k].is_broken}
                |-> stresses[i]]),
        CheckMemberFailure(r.members, stresses, t))

\* the stresses of the member forces and the members after the check
StepStress(r, t, asm, integ, reac, forces, stresses) ==
    StepCheck(r, t, asm, integ, reac, forces, stresses,
              CheckMemberFailure(r.members, stresses, t))

\* reactions and member forces of the displacements x_new.  The members
\* of ModelChoices that get an entry join the same two points with the
\* same section, so their end forces are one and the same case.
StepForces(r, t, asm, integ, FCs) ==
    {StepStress(r, t, asm, integ,
                Reactions(r.points, r.members,
                          SIValues(r.loads, r.unit_system), r.supports,
                          integ.x_new),
                MemberForces(r.points, r.members, integ.x_new,
                    Vec([i \in Needing(r.points, r.members, integ.x_new)
                            |-> fc])),
                MemberStresses(r.members,
                    MemberForces(r.points, r.members, integ.x_new,
                        Vec([i \in Needing(r.points, r.members, integ.x_new)
                                |-> fc])))) :
        fc \in IF Needing(r.points, r.members, integ.x_new) = {}
               THEN {ZeroForces} ELSE FCs}

\* time-dependent loads, gravity and the integration
StepIntegrate(r, t, asm, Es, FCs) ==
    UNION {StepForces(r, t, asm,
               Integrate(r.points, r.members, r.supports, asm,
                         WithGravity(r.points,
                             LoadsAtTime(r.points,
                                         SIValues(r.loads, r.unit_system),
                                         asm.F_ext, t),
                             asm, r.args.gravity),
                         r.x, r.v, r.args.step, e), FCs) :
        e \in IF NeedsElastic(r.points, r.members, asm,
                              SystemDofs(r.points, r.supports, asm), r.x)
              THEN Es ELSE {0}}

\* the outcomes of one iteration of the time integration loop for the run
\* r, the undetermined products taken from Es and FCs
StepOutcomes(r, Es, FCs) ==
    StepIntegrate(r,
        TimeSteps(r.args.step, r.args.simulation_time)[r.t_idx + 1],
        Assemble(r.points, r.members, SIValues(r.loads, r.unit_system),
                 r.supports, r.x),
        Es, FCs)

\* the run of the state takes the outcome o
TakeStep(o) ==
    /\ members' = o.members
    /\ broken_members_this_step' = o.broken_members_this_step
    /\ frames' = o.frames
    /\ points' = o.points
    /\ loads' = o.loads
    /\ x' = o.x
    /\ v' = o.v
    /\ t_idx' = o.t_idx
    /\ loc' = o.loc
    /\ IF o.stop
       THEN /\ pc' = "returned"
            /\ result' = Results(o.frames,
                            TimeSteps(args.step, args.simulation_time),
                            unit_system)
       ELSE pc' = "running" /\ result' = result
    /\ UNCHANGED <<supports, calls, args, pre>>

\* one iteration of the time integration loop
Step ==
    /\ pc = "running"
    /\ t_idx < Len(TimeSteps(args.step, args.simulation_time))
    /\ ~AssembleRaises(points, members, x)
    /\ \E o \in StepOutcomes(Run, ElasticVals, ForceCases) : TakeStep(o)
    /\ UNCHANGED <<unit_system, other>>
    /\ UNCHANGED db

\* the loop has run every entry of time_steps: solve() returns
Returns ==
    /\ pc' = "returned"
    /\ result' = Results(frames, TimeSteps(args.step, args.simulation_time),
                         unit_system)
    /\ UNCHANGED <<points, members, loads, supports, calls, args, t_idx, x,
                   v, frames, broken_members_this_step, loc, pre>>

SolveReturn ==
    /\ pc = "running"
    /\ t_idx = Len(TimeSteps(args.step, args.simulation_time))
    /\ Returns
    /\ UNCHANGED <<unit_system, other>>
    /\ UNCHANGED db

Next ==
    \/ SolveStart
    \/ CallerSetsFailureState
    \/ StepRaises
    \/ Step
    \/ SolveReturn

Spec == Init /\ [][Next]_vars

----------------------------------------------------------------------------
(* Two runs of solve() side by side: the run of the state and a second run
   on an equal Model (its own copy of the members) with equal arguments, in
   a process of its own.  Each process has its unit system, which a caller
   of set_unit_system may switch at any moment.  The products that the
   model's arithmetic leaves open are numbers fixed by the state, so the
   two runs are given the same ones. *)

UnitSystems == {"metric", "imperial"}

\* a second run that has not started: its members and its unit system
OtherIdle(mem, system, shared) ==
    [active |-> TRUE, shared |-> shared, pc |-> "idle", args |-> NoArgs,
     t_idx |-> 0, x |-> <<>>, v |-> <<>>, frames |-> <<>>,
     broken_members_this_step |-> <<>>, members |-> mem,
     unit_system |-> system, result |-> NoResults]

\* a second run that was given the Model of the first run whatever copy
\* it should have had
OtherRunOnSameModel ==
    [points |-> points, members |-> members, loads |-> loads,
     supports |-> supports, args |-> other.args, t_idx |-> other.t_idx,
     x |-> other.x, v |-> other.v, frames |-> other.frames,
     broken_members_this_step |-> other.broken_members_this_step,
     unit_system |-> other.unit_system]

\* what the second run works on
OtherRun ==
    [points |-> points,
     members |-> IF other.shared THEN members ELSE other.members,
     loads |-> loads, supports |-> supports, args |-> other.args,
     t_idx |-> other.t_idx, x |-> other.x, v |-> other.v,
     frames |-> other.frames,
     broken_members_this_step |-> other.broken_members_this_step,
     unit_system |-> other.unit_system]

\* the second run starts as st
OtherStarts(o, st) ==
    [o EXCEPT !.args = st.args, !.x = st.x, !.v = st.v,
              !.members = IF o.shared THEN @ ELSE st.members,
              !.t_idx = st.t_idx, !.frames = st.frames,
              !.broken_members_this_step = st.broken_members_this_step,
              !.pc = st.pc, !.result = st.result]

\* the second run takes the outcome oc of an iteration
OtherTakesStep(o, oc) ==
    [o EXCEPT !.members = IF o.shared THEN @ ELSE oc.members,
              !.broken_members_this_step = oc.broken_members_this_step,
              !.frames = oc.frames, !.x = oc.x, !.v = oc.v,
              !.t_idx = oc.t_idx,
              !.pc = IF oc.stop THEN "returned" ELSE "running",
              !.result = IF oc.stop
                         THEN Results(oc.frames,
                                 TimeSteps(o.args.step,
                                           o.args.simulation_time),
                                 o.unit_system)
                         ELSE @]

\* the second run returns
OtherReturns(o) ==
    [o EXCEPT !.pc = "returned",
              !.result = Results(o.frames,
                            TimeSteps(o.args.step, o.args.simulation_time),
                            o.unit_system)]

UnitsInit ==
    /\ \E m \in ModelChoices :
        /\ points = m.points
        /\ members = m.members
        /\ loads = m.loads
        /\ supports = m.supports
    /\ pc = "idle"
    /\ calls = 0
    /\ args = NoArgs
    /\ t_idx = 0
    /\ x = <<>>
    /\ v = <<>>
    /\ frames = <<>>
    /\ broken_members_this_step = <<>>
    /\ loc = NoLocals
    /\ result = NoResults
    /\ pre = [points |-> points, members |-> members, loads |-> loads,
              supports |-> supports]
    /\ unit_system = "metric"
    /\ other = OtherIdle(members, "imperial", FALSE)
    /\ db = NoDb

\* both callers start solve() with the same arguments
BothStart ==
    /\ pc \in {"idle", "returned", "raised"}
    /\ other.pc \in {"idle", "returned", "raised"}
    /\ calls = 0
    /\ \E a \in ArgChoices :
        /\ Starts(Started(points, members, a, unit_system))
        /\ other' = OtherStarts(other,
                       Started(points, other.members, a, other.unit_system))
    /\ UNCHANGED unit_system
    /\ UNCHANGED db

\* both runs do an iteration
BothStep ==
    /\ pc = "running"
    /\ other.pc = "running"
    /\ t_idx < Len(TimeSteps(args.step, args.simulation_time))
    /\ other.t_idx
          < Len(TimeSteps(other.args.step, other.args.simulation_time))
    /\ ~AssembleRaises(points, members, x)
    /\ ~AssembleRaises(points, other.members, other.x)
    /\ \E e \in ElasticVals, fc \in ForceCases :
          \E oa \in StepOutcomes(Run, {e}, {fc}) :
              \E ob \in StepOutcomes(OtherRun, {e}, {fc}) :
                  /\ TakeStep(oa)
                  /\ other' = OtherTakesStep(other, ob)
    /\ UNCHANGED unit_system
    /\ UNCHANGED db

\* both runs are left by the ValueError of the assembly
BothRaise ==
    /\ pc = "running"
    /\ other.pc = "running"
    /\ t_idx < Len(TimeSteps(args.step, args.simulation_time))
    /\ other.t_idx
          < Len(TimeSteps(other.args.step, other.args.simulation_time))
    /\ AssembleRaises(points, members, x)
    /\ AssembleRaises(points, other.members, other.x)
    /\ Raises
    /\ other' = [other EXCEPT !.pc = "raised"]
    /\ UNCHANGED unit_system
    /\ UNCHANGED db

\* both runs return
BothReturn ==
    /\ pc = "running"
    /\ other.pc = "running"
    /\ t_idx = Len(TimeSteps(args.step, args.simulation_time))
    /\ other.t_idx
          = Len(TimeSteps(other.args.step, other.args.simulation_time))
    /\ Returns
    /\ other' = OtherReturns(other)
    /\ UNCHANGED unit_system
    /\ UNCHANGED db

\* set_unit_system(system) in the process of the first run
SetUnitSystem ==
    /\ \E system \in UnitSystems \ {unit_system} : unit_system' = system
    /\ UNCHANGED <<points, members, loads, supports, pc, calls, args, t_idx,
                   x, v, frames, broken_members_this_step, loc, result, pre,
                   other>>
    /\ UNCHANGED db

\* set_unit_system(system) in the process of the second run
OtherSetUnitSystem ==
    /\ \E system \in UnitSystems \ {other.unit_system} :
          other' = [other EXCEPT !.unit_system = system]
    /\ UNCHANGED <<points, members, loads, supports, pc, calls, args, t_idx,
                   x, v, frames, broken_members_this_step, loc, result, pre,
                   unit_system>>
    /\ UNCHANGED db

UnitsNext ==
    \/ BothStart
    \/ BothStep
    \/ BothRaise
    \/ BothReturn
    \/ SetUnitSystem
    \/ OtherSetUnitSystem

SpecUnits == UnitsInit /\ [][UnitsNext]_vars

----------------------------------------------------------------------------
(* Two solve() runs of one process, interleaved between the iterations of
   their loops: the run of the state and a second run, either on the same
   Model object (other.shared) or on a copy of it with its own members. *)

SharedModels ==
    {m \in ModelChoices : Len(m.supports) = 1 /\ m.supports[1] = Pin}

SharedArgs ==
    {a \in ArgChoices : a.step = 1 /\ a.initial_displacements = <<>>}

\* the second run is a run of two time steps
OtherArgs == {a \in SharedArgs : a.simulation_time = 1}

SharedInit ==
    /\ \E m \in SharedModels :
        /\ points = m.points
        /\ members = m.members
        /\ loads = m.loads
        /\ supports = m.supports
    /\ pc = "idle"
    /\ calls = 0
    /\ args = NoArgs
    /\ t_idx = 0
    /\ x = <<>>
    /\ v = <<>>
    /\ frames = <<>>
    /\ broken_members_this_step = <<>>
    /\ loc = NoLocals
    /\ result = NoResults
    /\ pre = [points |-> points, members |-> members, loads |-> loads,
              supports |-> supports]
    /\ unit_system = "metric"
    /\ \E shared \in BOOLEAN : other = OtherIdle(members, "metric", shared)
    /\ db = NoDb

\* the first caller starts solve(model, ...)
FirstStart ==
    /\ pc = "idle"
    /\ \E a \in SharedArgs :
          Starts(Started(points, members, a, unit_system))
    /\ UNCHANGED <<unit_system, other>>
    /\ UNCHANGED db

\* the second caller starts solve() on its Model: the reset loop writes
\* the members of that Model
OtherStart ==
    /\ other.pc = "idle"
    /\ \E a \in OtherArgs :
          other' = OtherStarts(other,
                      Started(points, OtherRun.members, a,
                              other.unit_system))
    /\ members' = IF other.shared THEN ResetMembers(members) ELSE members
    /\ UNCHANGED <<points, loads, supports, pc, calls, args, t_idx, x, v,
                   frames, broken_members_this_step, loc, result, pre,
                   unit_system>>
    /\ UNCHANGED db

\* one iteration of the second run: _check_member_failure writes the
\* members of its Model
OtherStep ==
    /\ other.pc = "running"
    /\ other.t_idx
          < Len(TimeSteps(other.args.step, other.args.simulation_time))
    /\ ~AssembleRaises(points, OtherRun.members, other.x)
    /\ \E o \in StepOutcomes(OtherRun, ElasticVals, ForceCases) :
          /\ other' = OtherTakesStep(other, o)
          /\ members' = IF other.shared THEN o.members ELSE members
    /\ UNCHANGED <<points, loads, supports, pc, calls, args, t_idx, x, v,
                   frames, broken_members_this_step, loc, result, pre,
                   unit_system>>
    /\ UNCHANGED db

OtherReturn ==
    /\ other.pc = "running"
    /\ other.t_idx
          = Len(TimeSteps(other.args.step, other.args.simulation_time))
    /\ other' = OtherReturns(other)
    /\ UNCHANGED <<points, members, loads, supports, pc, calls, args, t_idx,
                   x, v, frames, broken_members_this_step, loc, result, pre,
                   unit_system>>
    /\ UNCHANGED db

SharedNext ==
    \/ FirstStart
    \/ Step
    \/ SolveReturn
    \/ OtherStart
    \/ OtherStep
    \/ OtherReturn

SpecShared == SharedInit /\ [][SharedNext]_vars

----------------------------------------------------------------------------
(* The loop on a mass matrix with zero pivots: the except branches of the
   two np.linalg.solve calls.  _assemble_matrices puts a positive entry on
   every diagonal place of M_full, so a step of Spec never takes them; here
   the assembled M_full has the entries of a chosen set of DOFs zeroed. *)

ZeroPivotChoices(pts) == {{}, {1}, Dofs(pts)}

WithZeroPivots(asm, Z) ==
    [asm EXCEPT !.M_diag =
        Vec([d \in DOMAIN asm.M_diag |->
            IF d \in Z THEN [num |-> 0, den |-> 1] ELSE asm.M_diag[d]])]

SingularModels ==
    {m \in ModelChoices : DOMAIN m.members = {} \/ m.supports = <<Idle>>}

SingularInit ==
    /\ Init
    /\ Model(points, members, loads, supports) \in SingularModels

\* the outcomes of an iteration whose assembled M_full has zero pivots at Z
SingularOutcomes(r, Z) ==
    StepIntegrate(r,
        TimeSteps(r.args.step, r.args.simulation_time)[r.t_idx + 1],
        WithZeroPivots(Assemble(r.points, r.members,
                                SIValues(r.loads, r.unit_system),
                                r.supports, r.x), Z),
        ElasticVals, ForceCases)

SingularStep ==
    /\ pc = "running"
    /\ t_idx < Len(TimeSteps(args.step, args.simulation_time))
    /\ ~AssembleRaises(points, members, x)
    /\ \E Z \in ZeroPivotChoices(points) :
          \E o \in SingularOutcomes(Run, Z) : TakeStep(o)
    /\ UNCHANGED <<unit_system, other>>
    /\ UNCHANGED db

SingularNext ==
    \/ SolveStart
    \/ CallerSetsFailureState
    \/ StepRaises
    \/ SingularStep
    \/ SolveReturn

SpecSingular == SingularInit /\ [][SingularNext]_vars

----------------------------------------------------------------------------
(* _check_member_failure on its own: one intact member, any stresses *)

StressLevels == 0..MaxStress

StrengthLevels == {0, 1, 2}

FailureInit ==
    /\ points = <<>>
    /\ \E ts \in StrengthLevels, cs \in StrengthLevels,
          ss \in StrengthLevels, bs \in StrengthLevels :
          /\ members = [i \in {0} |-> Member(1, 2, ts, cs, ss, bs)]
          /\ pre = [points |-> <<>>, members |-> members, loads |-> <<>>,
                    supports |-> <<>>]
    /\ loads = <<>>
    /\ supports = <<>>
    /\ pc = "check"
    /\ calls = 0
    /\ args = NoArgs
    /\ t_idx = 0
    /\ x = <<>>
    /\ v = <<>>
    /\ frames = <<>>
    /\ broken_members_this_step = <<>>
    /\ \E a \in StressLevels, b \in StressLevels, c \in StressLevels,
          d \in StressLevels, t \in 0..1 :
          loc = [valid |-> FALSE, t |-> t,
                 member_stresses |->
                    [i \in {0} |-> [tensile |-> a, compressive |-> b,
                                    shear |-> c, bending |-> d]]]
    /\ result = NoResults
    /\ unit_system = "metric"
    /\ other = NoOther
    /\ db = NoDb

\* newly_broken = _check_member_failure(model, member_stresses, t)
CheckFailure ==
    /\ pc = "check"
    /\ members' = CheckMemberFailure(members, loc.member_stresses, loc.t)
    /\ broken_members_this_step' =
          broken_members_this_step
             \o NewlyBroken(members, members', Cardinality(DOMAIN members))
    /\ pc' = "checked"
    /\ UNCHANGED <<points, loads, supports, calls, args, t_idx, x, v, frames,
                   loc, result, pre, unit_system, other>>
    /\ UNCHANGED db

FailureNext == CheckFailure

SpecFailure == FailureInit /\ [][FailureNext]_vars

----------------------------------------------------------------------------
(* _get_load_at_time on its own: one load, any time *)

BaseValues == {0 - 6, 0, 6}

TimeFunctions == {"None", "constant", "ramp", "impulse"}

LoadInit ==
    /\ points = <<>>
    /\ members = <<>>
    /\ \E b \in BaseValues, tf \in TimeFunctions, st \in 0..MaxDuration,
          dur \in 0..MaxDuration :
          /\ loads = <<[Load(1, <<0, b, 0, 0, 0, b>>, tf, dur)
                           EXCEPT !.start_time = st]>>
          /\ pre = [points |-> <<>>, members |-> <<>>, loads |-> loads,
                    supports |-> <<>>]
    /\ supports = <<>>
    /\ pc = "evaluate"
    /\ calls = 0
    /\ args = NoArgs
    /\ t_idx = 0
    /\ x = <<>>
    /\ v = <<>>
    /\ frames = <<>>
    /\ broken_members_this_step = <<>>
    /\ loc = NoLocals
    /\ result = NoResults
    /\ unit_system = "metric"
    /\ other = NoOther
    /\ db = NoDb

\* fx, fy, fz, mx, my, mz = _get_load_at_time(load, t)
EvaluateLoad ==
    /\ pc = "evaluate"
    /\ \E t \in 0..(2 * MaxDuration + 1) :
          loc' = [valid |-> TRUE, t |-> t, value |-> LoadAtTime(loads[1], t)]
    /\ pc' = "evaluated"
    /\ UNCHANGED <<points, members, loads, supports, calls, args, t_idx, x, v,
                   frames, broken_members_this_step, result, pre,
                   unit_system, other>>
    /\ UNCHANGED db

LoadNext == EvaluateLoad

SpecLoad == LoadInit /\ [][LoadNext]_vars

----------------------------------------------------------------------------
(* Properties *)

\* C1: the step that starts a solve() call leaves every member of the model
\* with is_broken = False, break_time = None and failure_mode = None,
\* whatever the members held before and also when the model has no points
\* (the call then returns at once).
C1_ResetAtCallStart ==
    [][calls' = calls + 1 =>
          /\ DOMAIN members' = DOMAIN members
          /\ \A i \in DOMAIN members' : FailureState(members'[i]) = Intact
      ]_vars

\* a call on a model without points has returned, and a member that was
\* broken when the call started is intact
C1_Witness ==
    /\ pc = "returned"
    /\ points = <<>>
    /\ \E i \in DOMAIN members :
          pre.members[i].is_broken /\ FailureState(members[i]) = Intact

\* C2: while a solve() call is running, a member that is broken keeps its
\* is_broken, break_time and failure_mode through every further step of
\* the call: Broken is terminal and is entered at most once.
C2_BrokenIsTerminal ==
    [][pc = "running" =>
          \A i \in DOMAIN members :
              members[i].is_broken =>
                  /\ i \in DOMAIN members'
                  /\ FailureState(members'[i]) = FailureState(members[i])
      ]_vars

\* a later step of the run has been taken after a member broke
C2_Witness ==
    /\ pc = "running"
    /\ loc.valid
    /\ \E i \in DOMAIN members :
          members[i].is_broken /\ members[i].break_time < loc.t

\* C3: _check_member_failure on an intact member whose stresses are not
\* all below the threshold: the ratios stress/strength are taken in the
\* order tensile, compressive, shear, bending; the first one strictly
\* above 1.0 gives failure_mode, with is_broken = True and break_time = the
\* current time, and the member is returned as newly broken; when no ratio
\* is above 1.0 (exactly 1.0 included, and 0.0 for a zero strength) the
\* member is left as it was.
C3_PriorityOrder ==
    pc = "checked" =>
        LET s == loc.member_stresses[0]
            before == pre.members[0]
            after == members[0]
            order == <<"tensile", "compressive", "shear", "bending">>
            stress == <<s.tensile, s.compressive, s.shear, s.bending>>
            strength == <<before.tensile_strength,
                          before.compressive_strength,
                          before.shear_strength, before.bending_strength>>
            hits == {k \in 1..4 : strength[k] > 0 /\ stress[k] > strength[k]}
        IN  (\E k \in 1..4 : stress[k] >= STRESS_CHECK_THRESHOLD) =>
                IF hits = {}
                THEN after = before /\ broken_members_this_step = <<>>
                ELSE /\ after.is_broken
                     /\ after.break_time = loc.t
                     /\ after.failure_mode =
                           order[CHOOSE k \in hits : \A j \in hits : k <= j]
                     /\ broken_members_this_step = <<0>>

\* the tensile ratio is exactly 1.0, the compressive and the shear ratio
\* are above 1.0, and the member failed in compression
C3_Witness ==
    /\ pc = "checked"
    /\ loc.member_stresses[0].tensile = pre.members[0].tensile_strength
    /\ pre.members[0].tensile_strength > 0
    /\ loc.member_stresses[0].compressive >= STRESS_CHECK_THRESHOLD
    /\ loc.member_stresses[0].compressive
          > pre.members[0].compressive_strength
    /\ pre.members[0].compressive_strength > 0
    /\ loc.member_stresses[0].shear > pre.members[0].shear_strength
    /\ pre.members[0].shear_strength > 0
    /\ members[0].failure_mode = "compressive"

\* C4: a member that was broken when a step began is in none of the two
\* assemblies of that step (the one before the integration and the one of
\* the reactions): it adds no stiffness to K_full, no mass to the nodal
\* masses, and does not mark its end points connected.
C4_BrokenContributesNothing ==
    [][(pc = "running" /\ t_idx' = t_idx + 1) =>
          \A i \in DOMAIN members :
              members[i].is_broken =>
                  /\ i \notin loc'.asm.stiff
                  /\ i \notin loc'.asm.massive
                  /\ i \notin loc'.asm.connecting
                  /\ i \notin loc'.asm_new.stiff
                  /\ i \notin loc'.asm_new.massive
                  /\ i \notin loc'.asm_new.connecting
      ]_vars

\* a step was taken with one member broken in an earlier step and another
\* member still adding its stiffness and mass
C4_Witness ==
    /\ pc = "running"
    /\ loc.valid
    /\ \E i \in DOMAIN members :
          /\ members[i].is_broken
          /\ members[i].break_time < loc.t
          /\ HasPoint(points, members[i].start)
          /\ HasPoint(points, members[i].end)
    /\ loc.asm.stiff # {}
    /\ loc.asm.massive # {}

\* C5: the broken_members lists of the frames are cumulative: each is a
\* prefix of the next, none holds an index twice, and while the call runs
\* the list of a frame holds exactly the members broken up to the time of
\* that frame.
C5_BrokenMembersCumulative ==
    /\ \A k \in 1..Len(frames) :
          LET b == frames[k].broken_members
          IN  /\ \A p \in 1..Len(b), q \in 1..Len(b) : b[p] = b[q] => p = q
              /\ k < Len(frames) =>
                    LET c == frames[k + 1].broken_members
                    IN  /\ Len(b) <= Len(c)
                        /\ \A p \in 1..Len(b) : c[p] = b[p]
    /\ pc = "running" =>
          \A k \in 1..Len(frames) :
              RangeOf(frames[k].broken_members)
                 = {i \in DOMAIN members :
                       /\ members[i].is_broken
                       /\ members[i].break_time <= frames[k].time}

\* the second member broke in one step, the first one in a later step
C5_Witness ==
    /\ pc = "running"
    /\ Len(frames) >= 2
    /\ frames[Len(frames) - 1].broken_members = <<1>>
    /\ frames[Len(frames)].broken_members = <<1, 0>>

\* C6: a model without Support records is integrated on the full system
\* of all 6N DOFs; a model with at least one Support record, also one with
\* six false flags, is integrated on the reduced system of its free DOFs.
C6_SupportsDecideThePath ==
    loc.valid =>
        IF Len(supports) = 0
        THEN loc.path = "full" /\ loc.system = 0..(6 * NPoints(points) - 1)
        ELSE /\ loc.path = "reduced"
             /\ loc.system =
                   {d \in 0..(6 * NPoints(points) - 1) :
                       ~\E k \in 1..Len(supports) :
                           /\ HasPoint(points, supports[k].point)
                           /\ PointIdx(points, supports[k].point) = d \div 6
                           /\ supports[k].flags[(d % 6) + 1]}

\* a step of a model whose only Support has six false flags: the reduced
\* system holds every DOF
C6_Witness ==
    /\ loc.valid
    /\ Len(supports) = 1
    /\ \A j \in 1..6 : ~supports[1].flags[j]
    /\ loc.path = "reduced"
    /\ loc.system = Dofs(points)

\* C7: the points, loads and supports of the model are what they were when
\* the call began, and of the members only is_broken, break_time and
\* failure_mode may differ.
C7_OnlyFailureStateWritten ==
    /\ points = pre.points
    /\ loads = pre.loads
    /\ supports = pre.supports
    /\ DOMAIN members = DOMAIN pre.members
    /\ \A i \in DOMAIN members :
          [members[i] EXCEPT !.is_broken = pre.members[i].is_broken,
                             !.break_time = pre.members[i].break_time,
                             !.failure_mode = pre.members[i].failure_mode]
             = pre.members[i]

\* a call returned after a step that displaced a point, evaluated the
\* model's loads and broke a member
C7_Witness ==
    /\ pc = "returned"
    /\ loads # <<>>
    /\ supports # <<>>
    /\ \E i \in DOMAIN members : members[i].is_broken
    /\ \E k \in 1..Len(frames) : \E i \in DOMAIN points :
          frames[k].positions[i] # <<points[i].x, points[i].y, points[i].z>>

\* C8: a call on a model with points ends by returning, with one frame for
\* each scheduled time 0, step, 2*step, ... <= simulation_time, in that
\* order; total_frames is the number of frames and final_time the last
\* scheduled time.
C8_OneFramePerScheduledTime ==
    (points # <<>> /\ pc \in {"returned", "raised"}) =>
        LET time_steps == TimeSteps(args.step, args.simulation_time)
        IN  /\ pc = "returned"
            /\ Len(frames) = Len(time_steps)
            /\ \A k \in 1..Len(frames) : frames[k].time = time_steps[k]
            /\ \A k \in 1..Len(frames) :
                  frames[k].time = (k - 1) * args.step
                  /\ frames[k].time <= args.simulation_time
            /\ Len(frames) * args.step > args.simulation_time
            /\ result.frames = frames
            /\ result.total_frames = Len(frames)
            /\ result.final_time = time_steps[Len(time_steps)]

\* the call was left by the error of an assembly with scheduled times not
\* yet attempted
C8_Witness ==
    /\ pc = "raised"
    /\ Len(frames) >= 1
    /\ Len(frames) < Len(TimeSteps(args.step, args.simulation_time))

\* the same for the calls that return: every returning call returns one
\* frame per scheduled time
C8_WhenReturned ==
    (points # <<>> /\ pc = "returned") =>
        LET time_steps == TimeSteps(args.step, args.simulation_time)
        IN  /\ Len(frames) = Len(time_steps)
            /\ \A k \in 1..Len(frames) :
                  frames[k].time = (k - 1) * args.step
                  /\ frames[k].time <= args.simulation_time
            /\ Len(frames) * args.step > args.simulation_time
            /\ result.frames = frames
            /\ result.total_frames = Len(frames)
            /\ result.final_time = time_steps[Len(time_steps)]

\* C9: when a component of x_new is larger than 1e6 in magnitude after a
\* step, the frame of that step holds the issue 'Very large displacements
\* detected', the loop is left, and the call returns the frames made so
\* far.
C9_RunawayStopsTheRun ==
    (pc \in {"running", "returned"} /\ loc.valid
     /\ Exceeds(loc.x_new, RUNAWAY_DISPLACEMENT)) =>
        /\ pc = "returned"
        /\ \E k \in 1..Len(frames[Len(frames)].issues) :
              frames[Len(frames)].issues[k]
                 = "Very large displacements detected"
        /\ result.frames = frames

\* a step gave a displacement above 1e6, the runaway test saw the clipped
\* maximum 1e3, and the loop goes on without the issue
C9_Witness ==
    /\ pc = "running"
    /\ loc.valid
    /\ Exceeds(loc.x_new, RUNAWAY_DISPLACEMENT)
    /\ loc.max_disp = MAX_DISPLACEMENT
    /\ \A k \in 1..Len(frames[Len(frames)].issues) :
          frames[Len(frames)].issues[k] # "Very large displacements detected"
    /\ t_idx < Len(TimeSteps(args.step, args.simulation_time))

\* C10: a step whose v_new exceeds 1e4 or whose x_new exceeds 1e3 in
\* magnitude records an issue on its frame, and the x and v that enter
\* every step after the first are at most 1e3 and 1e4 in magnitude.
C10_CarriedStateIsClipped ==
    /\ (loc.valid /\ pc = "running"
        /\ Exceeds(NanToNum(loc.v_new), MAX_VELOCITY)) =>
          \E k \in 1..Len(frames[Len(frames)].issues) :
              frames[Len(frames)].issues[k] = "Velocity limited"
    /\ (loc.valid /\ pc = "running"
        /\ Exceeds(NanToNum(loc.x_new), MAX_DISPLACEMENT)) =>
          \E k \in 1..Len(frames[Len(frames)].issues) :
              frames[Len(frames)].issues[k] = "Displacement limited"
    /\ (pc = "running" /\ t_idx > 0
        /\ t_idx < Len(TimeSteps(args.step, args.simulation_time))) =>
          \A d \in DOMAIN x :
              /\ x[d] # NaN => Abs(x[d]) <= MAX_DISPLACEMENT
              /\ v[d] # NaN => Abs(v[d]) <= MAX_VELOCITY

\* a step gave a displacement of 3e6: the frame holds 'Displacement
\* limited', the clipped local is 1e3, and the x that enters the next step
\* is 3e6
C10_Witness ==
    /\ pc = "running"
    /\ loc.valid
    /\ t_idx > 0
    /\ t_idx < Len(TimeSteps(args.step, args.simulation_time))
    /\ \E d \in DOMAIN x :
          /\ x[d] = 3000000
          /\ loc.x_lim[d] = MAX_DISPLACEMENT
          /\ v[d] = 3000000
          /\ loc.v_lim[d] = MAX_VELOCITY
    /\ \E k \in 1..Len(frames[Len(frames)].issues) :
          frames[Len(frames)].issues[k] = "Displacement limited"

\* C11: a step whose v_new or x_new holds nan or inf records an issue on
\* its frame, the entries are 0 in the x and v that enter the next step,
\* and the call is not left by an error.
C11_NonFiniteIsZeroedAndCarried ==
    (loc.valid /\ pc \in {"running", "raised"}
     /\ (HasNaN(loc.x_new) \/ HasNaN(loc.v_new))) =>
        /\ HasNaN(loc.v_new) =>
              \E k \in 1..Len(frames[Len(frames)].issues) :
                  frames[Len(frames)].issues[k]
                     = "Numerical instability in velocity"
        /\ HasNaN(loc.x_new) =>
              \E k \in 1..Len(frames[Len(frames)].issues) :
                  frames[Len(frames)].issues[k]
                     = "Numerical instability in displacement"
        /\ pc # "raised"
        /\ t_idx < Len(TimeSteps(args.step, args.simulation_time)) =>
              \A d \in DOMAIN x :
                  /\ loc.x_new[d] = NaN => x[d] = 0
                  /\ loc.v_new[d] = NaN => v[d] = 0

\* a step gave nan displacements and velocities: both issues are on its
\* frame, the locals were zeroed, and the x and v that enter the next step
\* are nan
C11_Witness ==
    /\ pc = "running"
    /\ loc.valid
    /\ t_idx < Len(TimeSteps(args.step, args.simulation_time))
    /\ \E d \in DOMAIN x :
          /\ x[d] = NaN /\ loc.x_lim[d] = 0
          /\ v[d] = NaN /\ loc.v_lim[d] = 0
    /\ \E k \in 1..Len(frames[Len(frames)].issues) :
          frames[Len(frames)].issues[k]
             = "Numerical instability in displacement"

\* C12: a step whose mass matrix is singular takes the acceleration as
\* zero, records "Singular mass matrix at time t" on its frame, and leaves
\* the loop running: the next step or the return follows, no error.
C12_SingularMassIsSoft ==
    [][(pc = "running" /\ t_idx' = t_idx + 1 /\ 0 \in loc'.pivots) =>
        /\ pc' = "running"
        /\ frames'[Len(frames')].time = loc'.t
        /\ \A d \in DOMAIN frames'[Len(frames')].accelerations :
              frames'[Len(frames')].accelerations[d] = 0
        /\ \E k \in 1..Len(frames'[Len(frames')].issues) :
              frames'[Len(frames')].issues[k] = SingularIssue(loc'.t)
        /\ \A d \in loc'.system : v'[d] = v[d]
        /\ ~AssembleRaises(points', members', x')]_vars

\* a step at t = 1 with a singular mass matrix and a load on the point, on
\* the full system
C12_Witness ==
    /\ loc.valid /\ 0 \in loc.pivots
    /\ loc.path = "full"
    /\ loc.t = 1
    /\ Len(frames) = 2
    /\ frames[2].issues[1] = "Singular mass matrix at time 1.0"
    /\ \E d \in DOMAIN x : x[d] # 0

\* C13: in a run with supports, every step leaves 0 at each constrained
\* DOF of x_new and v_new and of the x and v carried on, and every frame
\* has the point's own coordinate, velocity 0 and acceleration 0 there,
\* whatever initial_displacements put at that DOF.
C13_ConstrainedDofsStayZero ==
    (pc \in {"running", "returned"} /\ supports # <<>> /\ points # <<>>) =>
        \A c \in RangeOf(ConstrainedDofs(points, supports, Len(supports))) :
            /\ \A k \in 1..Len(frames) :
                  /\ frames[k].velocities[c] = 0
                  /\ frames[k].accelerations[c] = 0
                  /\ c % 6 = 0 =>
                        frames[k].positions[c \div 6][1] = points[c \div 6].x
                  /\ c % 6 = 1 =>
                        frames[k].positions[c \div 6][2] = points[c \div 6].y
                  /\ c % 6 = 2 =>
                        frames[k].positions[c \div 6][3] = points[c \div 6].z
            /\ loc.valid => loc.x_new[c] = 0 /\ loc.v_new[c] = 0
            /\ t_idx > 0 => x[c] = 0 /\ v[c] = 0

\* a run whose initial_displacements put 1 m on the constrained y of point
\* 2, after two steps
C13_Witness ==
    /\ pc = "running"
    /\ loc.valid
    /\ 7 \in RangeOf(ConstrainedDofs(points, supports, Len(supports)))
    /\ InitialX(points, args.initial_displacements)[7] = 1
    /\ x[7] = 0
    /\ Len(frames) = 2
    /\ frames[1].positions[1][2] = points[1].y

\* C14: in a run with supports, a frame in which a member carries an axial
\* force reports a non-zero reaction at the constrained translation along
\* the member's axis of the supported point the member ends in.
C14_LoadedSupportReacts ==
    (pc \in {"running", "returned"} /\ supports # <<>> /\ points # <<>>) =>
        \A k \in 1..Len(frames) : \A i \in DOMAIN frames[k].member_forces :
            (frames[k].member_forces[i].axial \notin {0, NaN}) =>
                \A c \in RangeOf(ConstrainedDofs(points, supports,
                                                 Len(supports)))
                            \cap MemberDofs(points, members[i]) :
                    c % 6 = 1 => frames[k].reactions[c] # 0

\* a frame of a run with point 1 pinned: the member that ends in it carries
\* an axial force, the free end has moved, and every reaction is 0
C14_Witness ==
    /\ pc = "running"
    /\ loc.valid
    /\ 1 \in RangeOf(ConstrainedDofs(points, supports, Len(supports)))
    /\ \E i \in DOMAIN frames[Len(frames)].member_forces :
          /\ frames[Len(frames)].member_forces[i].axial = 3
          /\ 1 \in MemberDofs(points, members[i])
    /\ loc.x_new[7] # 0
    /\ \A d \in DOMAIN frames[Len(frames)].reactions :
          frames[Len(frames)].reactions[d] = 0
    /\ frames[Len(frames)].issues = <<>>

\* C15: in every frame a reaction component differs from 0 only at a DOF
\* whose flag is set in a Support of an existing point; without supports
\* every reaction is 0.
C15_ReactionsOnlyAtFlaggedDofs ==
    (pc \in {"running", "returned"} /\ points # <<>>) =>
        \A k \in 1..Len(frames) : \A d \in DOMAIN frames[k].reactions :
            frames[k].reactions[d] # 0 =>
                \E j \in 1..Len(supports) :
                    /\ HasPoint(points, supports[j].point)
                    /\ PointIdx(points, supports[j].point) = d \div 6
                    /\ supports[j].flags[(d % 6) + 1]

\* a frame of a run with a flagged support in which a DOF has moved and
\* has the reaction 0
C15_Witness ==
    /\ pc = "running"
    /\ loc.valid
    /\ \E j \in 1..Len(supports) :
          /\ HasPoint(points, supports[j].point)
          /\ \E f \in 1..6 : supports[j].flags[f]
    /\ \E d \in DOMAIN x :
          /\ loc.x_new[d] \notin {0, NaN}
          /\ frames[Len(frames)].reactions[d] = 0

\* C16: the frame of the first step has velocity 0 in all six components
\* of every point, whatever v_new the step computed; the frame of every
\* later step has the v_new of its step, and no frame is changed afterwards.
C16_FirstFrameAtRest ==
    [][(pc = "running" /\ t_idx' = t_idx + 1) =>
        /\ Len(frames') = Len(frames) + 1
        /\ \A k \in 1..Len(frames) : frames'[k] = frames[k]
        /\ Len(frames) = 0 =>
              \A d \in DOMAIN frames'[1].velocities :
                  frames'[1].velocities[d] = 0
        /\ Len(frames) > 0 =>
              frames'[Len(frames')].velocities = loc'.v_new]_vars

\* two frames of a run that started at rest without initial displacements:
\* the first step moved a point, so it computed a velocity, and its frame
\* has none; the second frame has one
C16_Witness ==
    /\ pc = "running"
    /\ Len(frames) = 2
    /\ args.initial_displacements = <<>>
    /\ \E i \in DOMAIN points :
          frames[1].positions[i] # <<points[i].x, points[i].y, points[i].z>>
    /\ \A d \in DOMAIN frames[1].velocities : frames[1].velocities[d] = 0
    /\ \E d \in DOMAIN frames[2].velocities :
          frames[2].velocities[d] \notin {0, NaN}

\* C17: for a ramp load, every time t, start_time and duration (0
\* included), each component returned is the base component times a factor
\* in [0, 1]: 0 before start_time, the base value from start_time +
\* duration on, and base * (t - start_time) / duration in between.
C17_RampFactorInUnitInterval ==
    (pc = "evaluated" /\ loads[1].time_function = "ramp") =>
        \A k \in 1..6 :
            LET base == loads[1].f[k]
                val == loc.value[k]
                num == loc.t - loads[1].start_time
                den == loads[1].duration
            IN  /\ val # NaN
                /\ (base >= 0 => 0 <= val /\ val <= base)
                /\ (base <= 0 => base <= val /\ val <= 0)
                /\ num < 0 => val = 0
                /\ num > den => val = base
                /\ (den > 0 /\ 0 <= num /\ num <= den) =>
                      val * den = base * num

\* the ramp load with duration 0, evaluated at its start_time: nan
C17_Witness ==
    /\ pc = "evaluated"
    /\ loads[1].time_function = "ramp"
    /\ loads[1].duration = 0
    /\ loc.t = loads[1].start_time
    /\ loads[1].f[2] = 0 - 6
    /\ loc.value[2] = NaN

\* C17, away from the one case: unless duration is 0 and t is start_time,
\* the statement of C17 holds
C17_UnlessZeroOverZero ==
    (pc = "evaluated"
     /\ (loads[1].duration # 0 \/ loc.t # loads[1].start_time)) =>
        C17_RampFactorInUnitInterval

\* C18: in each step the load part of the external force is, per DOF, the
\* sum over the loads on existing points of the value of _get_load_at_time
\* at t; a load without time function or with "constant" adds its base
\* value, a load on an unknown point id adds nothing.
C18_LoadPartIsSumAtTime ==
    (loc.valid /\ pc \in {"running", "returned", "raised"}) =>
        \A d \in DOMAIN loc.F_load :
            LET on == {k \in 1..Len(loads) :
                          /\ \E i \in DOMAIN points :
                                points[i].id = loads[k].point
                          /\ points[d \div 6].id = loads[k].point}
                c == (d % 6) + 1
            IN  /\ (\A k \in on : LoadAtTime(loads[k], loc.t)[c] # NaN) =>
                      loc.F_load[d] =
                         FSumSeq([k \in 1..Len(loads) |->
                                    IF k \in on
                                    THEN LoadAtTime(loads[k], loc.t)[c]
                                    ELSE 0], Len(loads))
                /\ (\E k \in on : LoadAtTime(loads[k], loc.t)[c] = NaN) =>
                      loc.F_load[d] = NaN
                /\ (\A k \in on : loads[k].time_function
                                     \in {"None", "constant"}) =>
                      loc.F_load[d] =
                         FSumSeq([k \in 1..Len(loads) |->
                                    IF k \in on THEN loads[k].f[c] ELSE 0],
                                 Len(loads))

\* a step at t = 2 of the model with the impulse of duration 1 s: the base
\* moment is 3, the load part of the force is 0
C18_Witness ==
    /\ pc = "running"
    /\ loc.valid
    /\ loc.t = 2
    /\ \E k \in 1..Len(loads) :
          /\ loads[k].time_function = "impulse"
          /\ loads[k].f[6] = 3
          /\ points[0].id = loads[k].point
    /\ loc.F_load[5] = 0

\* C19: two runs on equal models with equal arguments, each in a process
\* whose unit system is anything and may be switched during the run, have
\* the same frames, final_time and total_frames, step by step; only the
\* unit_system tag of the Results can differ.
C19_UnitSystemIsOnlyATag ==
    /\ pc = other.pc
    /\ frames = other.frames
    /\ x = other.x
    /\ v = other.v
    /\ members = other.members
    /\ broken_members_this_step = other.broken_members_this_step
    /\ result.valid = other.result.valid
    /\ result.frames = other.result.frames
    /\ result.final_time = other.result.final_time
    /\ result.total_frames = other.result.total_frames
    /\ result.valid =>
          /\ result.unit_system \in UnitSystems
          /\ other.result.unit_system \in UnitSystems

\* both runs have returned two frames of a loaded model that moved, the
\* first tagged "imperial" after a switch, the second "metric"
C19_Witness ==
    /\ pc = "returned"
    /\ other.pc = "returned"
    /\ Len(result.frames) = 2
    /\ loads # <<>>
    /\ \E d \in DOMAIN x : x[d] \notin {0, NaN}
    /\ result.unit_system = "imperial"
    /\ other.result.unit_system = "metric"
    /\ unit_system = "metric"

\* C20: with two interleaved runs on one Model the start of the second
\* run sets every member of that Model intact, also while the first run is
\* in its loop, and each run's failure check writes the members the other
\* reads; with a Model copy each, a member a run has broken keeps its
\* state for the rest of that run and a run's members are written by that
\* run only.
C20_SharedModelIsNotReentrant ==
    [][/\ (other.pc = "idle" /\ other'.pc = "running" /\ other.shared) =>
             \A i \in DOMAIN members : FailureState(members'[i]) = Intact
       /\ (other.pc = "running" /\ other'.t_idx # other.t_idx
           /\ other.shared) =>
             \A i \in DOMAIN members :
                 members[i].is_broken =>
                     /\ members'[i] = members[i]
                     /\ \A k \in 1..Len(other'.broken_members_this_step) :
                           other'.broken_members_this_step[k] = i =>
                               k <= Len(other.broken_members_this_step)
       /\ ~other.shared =>
             /\ (pc = "running" /\ pc' # "idle") =>
                   \A i \in DOMAIN members :
                       members[i].is_broken => members'[i] = members[i]
             /\ (other.pc = "running" /\ other'.pc # "idle") =>
                   \A i \in DOMAIN other.members :
                       other.members[i].is_broken =>
                           other'.members[i] = other.members[i]
             /\ (pc' = pc /\ t_idx' = t_idx) => members' = members
             /\ (other'.pc = other.pc /\ other'.t_idx = other.t_idx) =>
                   other'.members = other.members]_vars

\* the first run is in its loop and has member 0 in its list of broken
\* members; the second run has started on the same Model since, and the
\* member is intact
C20_Witness ==
    /\ other.shared
    /\ pc = "running"
    /\ t_idx < Len(TimeSteps(args.step, args.simulation_time))
    /\ other.pc = "running"
    /\ \E k \in 1..Len(broken_members_this_step) :
          /\ broken_members_this_step[k] = 0
          /\ ~members[0].is_broken

----------------------------------------------------------------------------
(* Free fall: one unsupported point with mass, no members, no loads *)

FreeFallModels ==
    {Model([i \in {0} |-> Point(1, y, m)], <<>>, <<>>, <<>>) :
        y \in {0, 5}, m \in {1, 3}}

\* gravity 10 stays inside MAX_VELOCITY and MAX_DISPLACEMENT, gravity 6000
\* leaves both in the first step
FreeFallArgs ==
    {[step |-> st, simulation_time |-> sim, gravity |-> g,
      initial_displacements |-> <<>>] :
        st \in 1..2, sim \in 0..MaxSimTime, g \in {10, 6000}}

FreeFallInit ==
    /\ \E m \in FreeFallModels :
        /\ points = m.points
        /\ members = m.members
        /\ loads = m.loads
        /\ supports = m.supports
    /\ pc = "idle"
    /\ calls = 0
    /\ args = NoArgs
    /\ t_idx = 0
    /\ x = <<>>
    /\ v = <<>>
    /\ frames = <<>>
    /\ broken_members_this_step = <<>>
    /\ loc = NoLocals
    /\ result = NoResults
    /\ pre = [points |-> points, members |-> members, loads |-> loads,
              supports |-> supports]
    /\ unit_system = "metric"
    /\ other = NoOther
    /\ db = NoDb

FreeFallStart ==
    /\ pc \in {"idle", "returned"}
    /\ calls < MaxCalls
    /\ \E a \in FreeFallArgs :
          Starts(Started(points, members, a, unit_system))
    /\ UNCHANGED <<unit_system, other>>
    /\ UNCHANGED db

FreeFallNext ==
    \/ FreeFallStart
    \/ Step
    \/ SolveReturn

SpecFreeFall == FreeFallInit /\ [][FreeFallNext]_vars

\* the frame of loop index k (time k * step) of a fall from height y0: the
\* state after k + 1 updates, the velocity of the first frame zeroed
FreeFallFrame(fr, k, y0, g, step) ==
    /\ fr.time = k * step
    /\ 2 * (fr.positions[0][2] - y0) = 0 - g * step * step * (k + 1) * (k + 2)
    /\ fr.positions[0][1] = 0 /\ fr.positions[0][3] = 0
    /\ fr.velocities[1] = (IF k = 0 THEN 0 ELSE 0 - g * (k + 1) * step)
    /\ \A d \in Dofs(points) \ {1} : fr.velocities[d] = 0
    /\ fr.accelerations[1] = 0 - g

\* the distance of the frame's values from -g*t and -0.5*g*t^2 is of the
\* order of the step: at most g*step and g*step*(3*t + 2*step)/2
FreeFallError(fr, y0, g, step) ==
    /\ Abs(fr.velocities[1] + g * fr.time) <= g * step
    /\ Abs(2 * (fr.positions[0][2] - y0) + g * fr.time * fr.time)
          <= g * step * (3 * fr.time + 2 * step)

\* C21: an unsupported point with positive mass, without members and loads,
\* falls freely: after n velocity-then-position updates the carried state
\* is exactly v = -g*n*step and x = -g*step^2*n*(n+1)/2 on the y
\* translation and 0 elsewhere, and every frame holds the state after its
\* update, within g*step of -g*t in velocity and within
\* g*step*(3*t + 2*step)/2 of -0.5*g*t^2 in displacement.
C21_FreeFallIsExact ==
    pc \in {"running", "returned"} =>
        /\ v[1] = 0 - args.gravity * t_idx * args.step
        /\ 2 * x[1] = 0 - args.gravity * args.step * args.step
                              * t_idx * (t_idx + 1)
        /\ \A d \in Dofs(points) \ {1} : x[d] = 0 /\ v[d] = 0
        /\ Len(frames) = t_idx
        /\ \A k \in 1..Len(frames) :
              /\ FreeFallFrame(frames[k], k - 1, pre.points[0].y,
                               args.gravity, args.step)
              /\ FreeFallError(frames[k], pre.points[0].y, args.gravity,
                               args.step)

\* three updates with step 1 under gravity 6000: the last frame is beyond
\* both limits and says so
C21_Witness ==
    /\ pc = "returned"
    /\ Len(frames) = 3
    /\ args.step = 1
    /\ args.gravity = 6000
    /\ frames[3].velocities[1] = 0 - 18000
    /\ frames[3].positions[0][2] = points[0].y - 36000
    /\ frames[3].issues = <<"Velocity limited", "Displacement limited">>

----------------------------------------------------------------------------
(* _local_stiffness and _transformation_3d on their own *)

\* "k[i1, j1] = k[i2, j2] = val" written to one entry only
FirstOnly(i1, j1, i2, j2, val) == <<<<i1, j1, val>>>>

\* the chained assignment "k[i1, j1] = k[i2, j2] = val" as two writes
Chain(i1, j1, i2, j2, val) == <<<<i1, j1, val>>, <<i2, j2, val>>>>

\* num / L2 and num / L3 for L2 = L * L, L3 = L2 * L: on the integer grid
\* the quotient by a product of positive numbers is the repeated quotient
OverL2(num, L) == FDiv(FDiv(num, L), L)

OverL3(num, L) == FDiv(FDiv(FDiv(num, L), L), L)

\* the assignments of _local_stiffness, in the order of the code
StiffnessWrites(E, A, Iz, Iy, G, J, L) ==
    Chain(0, 0, 6, 6, FDiv(FMul(A, E), L))
    \o Chain(0, 6, 6, 0, FDiv(FMul(0 - A, E), L))
    \o Chain(1, 1, 7, 7, OverL3(FMul(FMul(12, E), Iz), L))
    \o Chain(1, 7, 7, 1, OverL3(FMul(FMul(0 - 12, E), Iz), L))
    \o Chain(1, 5, 5, 1, OverL2(FMul(FMul(6, E), Iz), L))
    \o Chain(1, 11, 11, 1, OverL2(FMul(FMul(6, E), Iz), L))
    \o Chain(7, 5, 5, 7, OverL2(FMul(FMul(0 - 6, E), Iz), L))
    \o Chain(7, 11, 11, 7, OverL2(FMul(FMul(0 - 6, E), Iz), L))
    \o Chain(5, 5, 11, 11, FDiv(FMul(FMul(4, E), Iz), L))
    \o Chain(5, 11, 11, 5, FDiv(FMul(FMul(2, E), Iz), L))
    \o Chain(2, 2, 8, 8, OverL3(FMul(FMul(12, E), Iy), L))
    \o Chain(2, 8, 8, 2, OverL3(FMul(FMul(0 - 12, E), Iy), L))
    \o Chain(2, 4, 4, 2, OverL2(FMul(FMul(0 - 6, E), Iy), L))
    \o Chain(2, 10, 10, 2, OverL2(FMul(FMul(0 - 6, E), Iy), L))
    \o Chain(8, 4, 4, 8, OverL2(FMul(FMul(6, E), Iy), L))
    \o Chain(8, 10, 10, 8, OverL2(FMul(FMul(6, E), Iy), L))
    \o Chain(4, 4, 10, 10, FDiv(FMul(FMul(4, E), Iy), L))
    \o Chain(4, 10, 10, 4, FDiv(FMul(FMul(2, E), Iy), L))
    \o Chain(3, 3, 9, 9, FDiv(FMul(G, J), L))
    \o Chain(3, 9, 9, 3, FDiv(FMul(0 - G, J), L))

\* np.zeros((n, n))
ZeroMatrix(n) == Vec([i \in 0..(n - 1) |-> Vec([j \in 0..(n - 1) |-> 0])])

\* the entry (i, j) of a zero matrix after the writes ws: the last value
\* written to it
EntryAfter(ws, i, j) ==
    LET hits == {n \in 1..Len(ws) : ws[n][1] = i /\ ws[n][2] = j}
    IN  IF hits = {} THEN 0
        ELSE ws[CHOOSE n \in hits : \A m \in hits : m <= n][3]

MatrixAfter(ws, size) ==
    Vec([i \in 0..(size - 1) |->
        Vec([j \in 0..(size - 1) |-> EntryAfter(ws, i, j)])])

\* _local_stiffness(E, A, Iz, Iy, G, J, L): ValueError for L <= 0, nan or
\* inf (nan <= 0 is false, so a non-finite L reaches its own test), the
\* zero matrix for L > 1e6
LocalStiffness(E, A, Iz, Iy, G, J, L) ==
    IF L # NaN /\ L <= 0
    THEN [raised |-> TRUE, error |-> "Invalid member length", k |-> <<>>]
    ELSE IF L = NaN
    THEN [raised |-> TRUE, error |-> "Member length is not finite",
          k |-> <<>>]
    ELSE IF L > MAX_MEMBER_LENGTH
    THEN [raised |-> FALSE, error |-> "", k |-> ZeroMatrix(12)]
    ELSE [raised |-> FALSE, error |-> "",
          k |-> MatrixAfter(StiffnessWrites(E, A, Iz, Iy, G, J, L), 12)]

Symmetric(k) == \A i \in DOMAIN k : \A j \in DOMAIN k[i] : k[i][j] = k[j][i]

Cross(a, b) ==
    <<a[2] * b[3] - a[3] * b[2], a[3] * b[1] - a[1] * b[3],
      a[1] * b[2] - a[2] * b[1]>>

Norm(a) == ISqrt(a[1] * a[1] + a[2] * a[2] + a[3] * a[3])

\* np.argmin: the first index of the smallest entry
ArgMin(a) ==
    CHOOSE i \in 0..2 :
        /\ \A j \in 0..2 : a[i + 1] <= a[j + 1]
        /\ \A j \in 0..(i - 1) : a[j + 1] > a[i + 1]

UnitVector(idx) == [j \in 1..3 |-> IF j = idx + 1 THEN 1 ELSE 0]

\* T: the rotation R on the four diagonal 3x3 blocks, zeros elsewhere; the
\* columns of R are x_axis, y_axis, z_axis
BlockDiagonal(x_axis, y_axis, z_axis) ==
    Vec([i \in 0..11 |-> Vec([j \in 0..11 |->
        IF i \div 3 = j \div 3
        THEN <<x_axis, y_axis, z_axis>>[(j % 3) + 1][(i % 3) + 1]
        ELSE 0])])

\* the local axes for the finite unit vector x_axis: the reference vector
\* is tried three times, "z_norm < 1e-10" is z_norm = 0 here
LocalAxes(x_axis) ==
    LET min_idx == ArgMin(<<Abs(x_axis[1]), Abs(x_axis[2]), Abs(x_axis[3])>>)
        z1 == Cross(x_axis, UnitVector(min_idx))
        z2 == IF Norm(z1) > 0 THEN z1
              ELSE Cross(x_axis, UnitVector(IF min_idx # 0 THEN 0 ELSE 1))
        z3 == IF Norm(z2) > 0 THEN z2 ELSE Cross(x_axis, UnitVector(2))
        z_axis == [j \in 1..3 |-> FDiv(z3[j], Norm(z3))]
        y0 == Cross(z_axis, x_axis)
        y_axis == [j \in 1..3 |-> FDiv(y0[j], Norm(y0))]
    IN  IF Norm(z3) = 0
        THEN [raised |-> TRUE,
              error |-> "Cannot find orthogonal axes for member transformation",
              T |-> <<>>]
        ELSE [raised |-> FALSE, error |-> "",
              T |-> BlockDiagonal(x_axis, y_axis, z_axis)]

\* T of a length that is nan or inf: x_axis = d / L holds a nan, the cross
\* products and norms are nan, "z_norm < 1e-10" is false for nan, and the
\* blocks of the matrix that is returned hold nan
NaNTransformation(start_pos, end_pos) ==
    [raised |-> FALSE, error |-> "",
     T |-> BlockDiagonal(<<NaN, NaN, NaN>>, <<NaN, NaN, NaN>>,
                         <<NaN, NaN, NaN>>)]

\* _transformation_3d(start_pos, end_pos): the only test of the length is
\* "if L == 0"
Transformation3d(start_pos, end_pos) ==
    IF MemberLength(start_pos, end_pos) = 0
    THEN [raised |-> TRUE,
          error |-> "Zero-length member in transformation_3d", T |-> <<>>]
    ELSE IF MemberLength(start_pos, end_pos) = NaN
    THEN NaNTransformation(start_pos, end_pos)
    ELSE LocalAxes([j \in 1..3 |->
            FDiv(FSub(end_pos[j], start_pos[j]),
                 MemberLength(start_pos, end_pos))])

\* section and material values, all positive
ElementValues ==
    {[E |-> E, A |-> A, Iz |-> Iz, Iy |-> Iy, G |-> G, J |-> J] :
        E \in {1, 6}, A \in {1, 2}, Iz \in {1, 3}, Iy \in {1, 2},
        G \in {1, 2}, J \in {1, 5}}

\* lengths handed to _local_stiffness: negative, zero, ordinary, the
\* largest that is not extreme, extreme, not finite
ElementLengths ==
    {0 - 1, 0, 1, 2, 3, MAX_MEMBER_LENGTH, MAX_MEMBER_LENGTH + 1, NaN}

\* end positions of a member that starts at the origin
EndPositions ==
    {<<0, 0, 0>>, <<2, 0, 0>>, <<0, 0 - 3, 0>>, <<0, 0, 1>>,
     <<NaN, 0, 0>>, <<0, 2, NaN>>}

ElementInit ==
    /\ points = <<>>
    /\ members = <<>>
    /\ loads = <<>>
    /\ supports = <<>>
    /\ pre = [points |-> <<>>, members |-> <<>>, loads |-> <<>>,
              supports |-> <<>>]
    /\ pc = "element"
    /\ calls = 0
    /\ \E val \in ElementValues : \E L \in ElementLengths :
       \E end_pos \in EndPositions :
          args = [val |-> val, L |-> L, start_pos |-> <<0, 0, 0>>,
                  end_pos |-> end_pos]
    /\ t_idx = 0
    /\ x = <<>>
    /\ v = <<>>
    /\ frames = <<>>
    /\ broken_members_this_step = <<>>
    /\ loc = NoLocals
    /\ result = NoResults
    /\ unit_system = "metric"
    /\ other = NoOther
    /\ db = NoDb

\* k_local = _local_stiffness(E, A, Iz, Iy, G, J, L)
CallLocalStiffness ==
    /\ pc = "element"
    /\ loc' = [valid |-> TRUE,
               res |-> LocalStiffness(args.val.E, args.val.A, args.val.Iz,
                                      args.val.Iy, args.val.G, args.val.J,
                                      args.L)]
    /\ pc' = IF loc'.res.raised THEN "stiffness raised" ELSE "stiffness"
    /\ UNCHANGED <<points, members, loads, supports, calls, args, t_idx, x, v,
                   frames, broken_members_this_step, result, pre,
                   unit_system, other>>
    /\ UNCHANGED db

\* T = _transformation_3d(start_pos, end_pos)
CallTransformation3d ==
    /\ pc = "element"
    /\ loc' = [valid |-> TRUE,
               res |-> Transformation3d(args.start_pos, args.end_pos)]
    /\ pc' = IF loc'.res.raised THEN "transformation raised"
             ELSE "transformation"
    /\ UNCHANGED <<points, members, loads, supports, calls, args, t_idx, x, v,
                   frames, broken_members_this_step, result, pre,
                   unit_system, other>>
    /\ UNCHANGED db

ElementNext ==
    \/ CallLocalStiffness
    \/ CallTransformation3d

SpecElement == ElementInit /\ [][ElementNext]_vars

\* C22: for positive section and material values and a length
\* 0 < L <= 1e6, _local_stiffness returns (it does not raise) a 12x12
\* matrix that is symmetric and whose (0,0) entry is A*E/L.
C22_LocalStiffnessSymmetric ==
    (pc \in {"stiffness", "stiffness raised"}
     /\ args.L > 0 /\ args.L <= MAX_MEMBER_LENGTH) =>
        /\ ~loc.res.raised
        /\ DOMAIN loc.res.k = 0..11
        /\ \A i \in 0..11 : DOMAIN loc.res.k[i] = 0..11
        /\ Symmetric(loc.res.k)
        /\ loc.res.k[0][0] = FDiv(FMul(args.val.A, args.val.E), args.L)

\* a matrix with bending and torsion entries off the diagonal, negative
\* and positive
C22_Witness ==
    /\ pc = "stiffness"
    /\ args.L = 2
    /\ loc.res.k[0][0] = 6
    /\ loc.res.k[0][6] = 0 - 6
    /\ loc.res.k[1][5] > 0
    /\ loc.res.k[5][7] < 0
    /\ loc.res.k[3][9] < 0

\* the length is non-positive, nan or infinite
InvalidLength(L) == L = NaN \/ L <= 0

\* C23: building an element matrix with invalid geometry is a hard
\* failure: _local_stiffness and _transformation_3d both raise, and return
\* no matrix, whenever the member length is non-positive, nan or infinite.
C23_InvalidGeometryIsHardFailure ==
    /\ (pc \in {"stiffness", "stiffness raised"} /\ InvalidLength(args.L))
          => loc.res.raised
    /\ (pc \in {"transformation", "transformation raised"}
        /\ InvalidLength(MemberLength(args.start_pos, args.end_pos)))
          => loc.res.raised

\* _transformation_3d has returned a matrix for end points whose distance
\* is not finite
C23_Witness ==
    /\ pc = "transformation"
    /\ MemberLength(args.start_pos, args.end_pos) = NaN
    /\ ~loc.res.raised
    /\ loc.res.T[0][0] = NaN

\* what the code does: _local_stiffness raises for every invalid length,
\* _transformation_3d for the length 0 only
C23_ExceptNonFiniteTransformation ==
    /\ (pc \in {"stiffness", "stiffness raised"} /\ InvalidLength(args.L))
          => loc.res.raised
    /\ pc \in {"transformation", "transformation raised"} =>
          (loc.res.raised
              <=> MemberLength(args.start_pos, args.end_pos) = 0)

----------------------------------------------------------------------------
(* _calculate_member_stresses and _check_member_failure on one member *)

SectionValues ==
    {[A |-> A, Iz |-> Iz, Iy |-> Iy] :
        A \in {0, 1, 2}, Iz \in {0, 1}, Iy \in {0, 1}}

\* end forces of the member: zero, large enough for a stress over the
\* threshold, not finite
ForceValues ==
    {[axial |-> a, shear |-> s, moment |-> m] :
        a \in {0 - 8, 0, 8, NaN}, s \in {0, 9, NaN}, m \in {0, 6, NaN}}

StressInit ==
    /\ points = <<>>
    /\ \E sec \in SectionValues :
       \E ts \in {0, 2}, cs \in {0, 2}, ss \in {0, 2}, bs \in {0, 2} :
          /\ members = [i \in {0} |->
                [Member(1, 2, ts, cs, ss, bs)
                    EXCEPT !.A = sec.A, !.Iz = sec.Iz, !.Iy = sec.Iy]]
          /\ pre = [points |-> <<>>, members |-> members, loads |-> <<>>,
                    supports |-> <<>>]
    /\ loads = <<>>
    /\ supports = <<>>
    /\ pc = "forces"
    /\ calls = 0
    /\ args = NoArgs
    /\ t_idx = 0
    /\ x = <<>>
    /\ v = <<>>
    /\ frames = <<>>
    /\ broken_members_this_step = <<>>
    /\ \E f \in ForceValues :
          loc = [valid |-> FALSE, t |-> 1, member_forces |-> [i \in {0} |-> f],
                 member_stresses |-> <<>>]
    /\ result = NoResults
    /\ unit_system = "metric"
    /\ other = NoOther
    /\ db = NoDb

\* member_stresses = _calculate_member_stresses(model, member_forces)
CalculateStresses ==
    /\ pc = "forces"
    /\ loc' = [loc EXCEPT !.member_stresses =
                  MemberStresses(members, loc.member_forces)]
    /\ pc' = "stresses"
    /\ UNCHANGED <<points, members, loads, supports, calls, args, t_idx, x,
                   v, frames, broken_members_this_step, result, pre,
                   unit_system, other>>
    /\ UNCHANGED db

\* newly_broken = _check_member_failure(model, member_stresses, t)
CheckStresses ==
    /\ pc = "stresses"
    /\ members' = CheckMemberFailure(members, loc.member_stresses, loc.t)
    /\ broken_members_this_step' =
          broken_members_this_step
             \o NewlyBroken(members, members', Cardinality(DOMAIN members))
    /\ pc' = "checked"
    /\ UNCHANGED <<points, loads, supports, calls, args, t_idx, x, v, frames,
                   loc, result, pre, unit_system, other>>
    /\ UNCHANGED db

StressNext ==
    \/ CalculateStresses
    \/ CheckStresses

SpecStress == StressInit /\ [][StressNext]_vars

\* the strength of the member m in a failure mode
StrengthIn(m, mode) ==
    IF mode = "tensile" THEN m.tensile_strength
    ELSE IF mode = "compressive" THEN m.compressive_strength
    ELSE IF mode = "shear" THEN m.shear_strength
    ELSE m.bending_strength

\* the stress of the record st in a failure mode
StressIn(st, mode) ==
    IF mode = "tensile" THEN st.tensile
    ELSE IF mode = "compressive" THEN st.compressive
    ELSE IF mode = "shear" THEN st.shear
    ELSE st.bending

\* C24: a member with section area 0 gets axial and shear stress 0; every
\* stress is a finite number; the ratio of every mode is a finite number,
\* and 0 for a mode whose strength is 0; the member does not fail in a mode
\* whose strength is 0, and fails only in a mode whose ratio exceeds 1.
C24_ZeroGuards ==
    pc \in {"stresses", "checked"} =>
        /\ DOMAIN loc.member_stresses = {0}
        /\ pre.members[0].A = 0 =>
              /\ loc.member_stresses[0].tensile = 0
              /\ loc.member_stresses[0].compressive = 0
              /\ loc.member_stresses[0].shear = 0
        /\ \A mode \in FailureModes :
              /\ StressIn(loc.member_stresses[0], mode) # NaN
              /\ FiniteRatio(Ratio(StressIn(loc.member_stresses[0], mode),
                                   StrengthIn(pre.members[0], mode)))
              /\ StrengthIn(pre.members[0], mode) = 0 =>
                    /\ Ratio(StressIn(loc.member_stresses[0], mode),
                             StrengthIn(pre.members[0], mode)).num = 0
                    /\ members[0].failure_mode # mode
              /\ members[0].failure_mode = mode =>
                    /\ StrengthIn(pre.members[0], mode) # 0
                    /\ StressIn(loc.member_stresses[0], mode)
                          > StrengthIn(pre.members[0], mode)

\* the check has run on stresses over the threshold: the member has a
\* section area, no tensile and no shear strength, a tensile and a shear
\* stress, and has failed in bending
C24_Witness ==
    /\ pc = "checked"
    /\ members[0].A = 2
    /\ members[0].tensile_strength = 0
    /\ members[0].shear_strength = 0
    /\ loc.member_stresses[0].tensile = 4
    /\ loc.member_stresses[0].shear = 3
    /\ members[0].failure_mode = "bending"

\* a member without section area under forces that are not zero: it has
\* no stress and is intact after the check
C24_ZeroAreaWitness ==
    /\ pc = "checked"
    /\ members[0].A = 0
    /\ loc.member_forces[0].axial = 8
    /\ loc.member_forces[0].shear = NaN
    /\ ~members[0].is_broken

----------------------------------------------------------------------------
(* The sheet routes of the web application (timber/sheet.py) and the
   landing page.  A table is the sequence of its rows in insertion order;
   the rows of elements and actions are not referred to by id and carry
   none here, and the time stamp of an action is left out. *)

Users == {1, 2}

\* sheet ids that requests name and that the model lets the table reach
SheetIds == 1..MaxSheetId

\* json.dumps(val): a text, not the value
Dumps(val) == [json |-> val]

\* json.loads(text)
Loads(text) == text.json

\* Sheet.query.filter_by(user_id=user_id)
SheetsOf(d, user_id) == SelectSeq(d.sheets, LAMBDA r : r.user_id = user_id)

\* Sheet.query.filter_by(id=sheet_id, user_id=current_user.id): the rows
\* (the routes take .first(); ids are unique)
OwnSheet(d, sheet_id, user_id) ==
    SelectSeq(d.sheets, LAMBDA r : r.id = sheet_id /\ r.user_id = user_id)

ElementsOf(d, sheet_id) ==
    SelectSeq(d.elements, LAMBDA r : r.sheet_id = sheet_id)

\* what Element.query.filter_by(sheet_id=sheet_id).delete() leaves
OtherElements(d, sheet_id) ==
    SelectSeq(d.elements, LAMBDA r : r.sheet_id # sheet_id)

\* what Action.query.filter_by(sheet_id=sheet_id).delete() leaves
OtherActions(d, sheet_id) ==
    SelectSeq(d.actions, LAMBDA r : r.sheet_id # sheet_id)

ActionsOf(d, sheet_id) ==
    SelectSeq(d.actions, LAMBDA r : r.sheet_id = sheet_id)

RECURSIVE MaxId(_)
MaxId(rows) ==
    IF rows = <<>> THEN 0
    ELSE Max(rows[Len(rows)].id, MaxId(SubSeq(rows, 1, Len(rows) - 1)))

\* the primary key of a row inserted into the table: one more than the
\* largest id in it (an INTEGER PRIMARY KEY of SQLite)
NextId(rows) == MaxId(rows) + 1

\* what a route leaves behind: the tables and the response (its status code
\* and the "status" or "error" of its body)
Outcome(d, status, body) == [db |-> d, status |-> status, body |-> body]

\* POST /sheet
CreateSheetOutcome(d, user_id, name) ==
    Outcome([d EXCEPT !.sheets =
                Append(@, [id |-> NextId(d.sheets), user_id |-> user_id,
                           name |-> name, unit_system |-> "metric"])],
            200, "created")

\* GET /: a user without sheets gets one named "Untitled"
IndexOutcome(d, user_id) ==
    IF SheetsOf(d, user_id) = <<>>
    THEN Outcome([d EXCEPT !.sheets =
                    Append(@, [id |-> NextId(d.sheets), user_id |-> user_id,
                               name |-> "Untitled",
                               unit_system |-> "metric"])],
                 200, "index.html")
    ELSE Outcome(d, 200, "index.html")

\* PUT /sheet/<id>
UpdateSheetOutcome(d, user_id, sheet_id, is_json, name) ==
    IF OwnSheet(d, sheet_id, user_id) = <<>> THEN Outcome(d, 404, "Not Found")
    ELSE IF ~is_json THEN Outcome(d, 400, "JSON body required")
    ELSE IF name = "" THEN Outcome(d, 400, "name-required")
    ELSE Outcome([d EXCEPT !.sheets =
                    [k \in 1..Len(@) |->
                        IF @[k].id = sheet_id THEN [@[k] EXCEPT !.name = name]
                        ELSE @[k]]],
                 200, "renamed")

\* elements added to the rows that are there
ElementsAdded(d, sheet_id, state) ==
    d.elements
    \o [k \in 1..Len(state) |->
            [sheet_id |-> sheet_id, json_blob |-> Dumps(state[k])]]

\* "Replace elements with current state": the sheet's rows are deleted and
\* one row per entry of the payload's list is added
ElementsReplaced(d, sheet_id, state) ==
    OtherElements(d, sheet_id)
    \o [k \in 1..Len(state) |->
            [sheet_id |-> sheet_id, json_blob |-> Dumps(state[k])]]

\* sheet.unit_system after record_action
UnitSystemSet(sheet, system) ==
    IF system \in {"metric", "imperial"}
    THEN [sheet EXCEPT !.unit_system = system] ELSE sheet

\* POST /sheet/action
RecordActionOutcome(d, user_id, is_json, payload) ==
    IF ~is_json THEN Outcome(d, 400, "JSON body required")
    ELSE IF payload.empty THEN Outcome(d, 400, "Invalid payload")
    ELSE IF OwnSheet(d, payload.sheet_id, user_id) = <<>>
    THEN Outcome(d, 404, "Not Found")
    ELSE Outcome(
            [sheets |-> [k \in 1..Len(d.sheets) |->
                            IF d.sheets[k].id = payload.sheet_id
                            THEN UnitSystemSet(d.sheets[k],
                                               payload.unit_system)
                            ELSE d.sheets[k]],
             actions |-> Append(d.actions,
                            [sheet_id |-> payload.sheet_id,
                             user_id |-> user_id,
                             json_blob |-> Dumps(payload)]),
             elements |-> ElementsReplaced(d, payload.sheet_id,
                                           payload.elements)],
            200, "ok")

\* a delete that never replaces the sheet
NeverLastSheet(d, user_id) == FALSE

\* is_last_sheet
IsLastSheet(d, user_id) == Len(SheetsOf(d, user_id)) <= 1

\* the ids the replacement sheet can get: the INSERT of the new row and the
\* DELETE of the old one are flushed by one commit, in the order the
\* session chooses
ReplacementIds(d, sheet_id) ==
    {NextId(d.sheets), NextId(SelectSeq(d.sheets, LAMBDA r : r.id # sheet_id))}

\* DELETE /sheet/<id>, the replacement sheet getting the id new_id
DeleteSheetOutcome(d, user_id, sheet_id, new_id) ==
    IF OwnSheet(d, sheet_id, user_id) = <<>> THEN Outcome(d, 404, "Not Found")
    ELSE IF IsLastSheet(d, user_id)
    THEN Outcome(
            [sheets |-> Append(SelectSeq(d.sheets, LAMBDA r : r.id # sheet_id),
                               [id |-> new_id, user_id |-> user_id,
                                name |-> "New Sheet",
                                unit_system |-> "metric"]),
             elements |-> OtherElements(d, sheet_id),
             actions |-> OtherActions(d, sheet_id)],
            200, "deleted_and_created")
    ELSE Outcome(
            [sheets |-> SelectSeq(d.sheets, LAMBDA r : r.id # sheet_id),
             elements |-> OtherElements(d, sheet_id),
             actions |-> OtherActions(d, sheet_id)],
            200, "deleted")

\* the "elements" of a payload: none, one, two
ElementLists == {<<>>, <<"a">>, <<"b", "a">>}

EmptyPayload ==
    [empty |-> TRUE, sheet_id |-> 0, elements |-> <<>>,
     unit_system |-> "None"]

\* the payload with one element also names a unit system
Payloads ==
    {EmptyPayload}
    \cup {[empty |-> FALSE, sheet_id |-> i, elements |-> els,
           unit_system |-> IF Len(els) = 1 THEN "imperial" ELSE "None"] :
            i \in SheetIds, els \in ElementLists}

SheetInit ==
    /\ points = <<>>
    /\ members = <<>>
    /\ loads = <<>>
    /\ supports = <<>>
    /\ pre = [points |-> <<>>, members |-> <<>>, loads |-> <<>>,
              supports |-> <<>>]
    /\ pc = "serving"
    /\ calls = 0
    /\ args = NoArgs
    /\ t_idx = 0
    /\ x = <<>>
    /\ v = <<>>
    /\ frames = <<>>
    /\ broken_members_this_step = <<>>
    /\ loc = NoLocals
    /\ result = NoResults
    /\ unit_system = "metric"
    /\ other = NoOther
    /\ db = NoDb

\* the request, one of at most MaxRequests, is answered with the outcome o
Responds(o) ==
    /\ calls < MaxRequests
    /\ calls' = calls + 1
    /\ db' = o.db
    /\ result' = [valid |-> TRUE, status |-> o.status, body |-> o.body]
    /\ UNCHANGED <<points, members, loads, supports, pc, args, t_idx, x, v,
                   frames, broken_members_this_step, loc, pre, unit_system,
                   other>>

CreateSheet(user_id, name) ==
    /\ NextId(db.sheets) \in SheetIds
    /\ Responds(CreateSheetOutcome(db, user_id, name))

Index(user_id) ==
    /\ SheetsOf(db, user_id) = <<>>
    /\ NextId(db.sheets) \in SheetIds
    /\ Responds(IndexOutcome(db, user_id))

UpdateSheet(user_id, sheet_id, is_json, name) ==
    Responds(UpdateSheetOutcome(db, user_id, sheet_id, is_json, name))

RecordAction(user_id, is_json, payload) ==
    Responds(RecordActionOutcome(db, user_id, is_json, payload))

DeleteSheet(user_id, sheet_id, new_id) ==
    /\ new_id \in SheetIds
    /\ Responds(DeleteSheetOutcome(db, user_id, sheet_id, new_id))

\* a body that is not JSON is not looked at
SheetNext ==
    \/ \E u \in Users : CreateSheet(u, "New Sheet")
    \/ \E u \in Users : Index(u)
    \/ \E u \in Users : \E i \in SheetIds :
          \/ UpdateSheet(u, i, FALSE, "")
          \/ \E name \in {"", "Renamed"} : UpdateSheet(u, i, TRUE, name)
    \/ \E u \in Users :
          \/ RecordAction(u, FALSE, EmptyPayload)
          \/ \E payload \in Payloads : RecordAction(u, TRUE, payload)
    \/ \E u \in Users : \E i \in SheetIds :
       \E new_id \in ReplacementIds(db, i) : DeleteSheet(u, i, new_id)

SpecSheet == SheetInit /\ [][SheetNext]_vars

\* the sequence a begins with the sequence b
StartsWith(a, b) == Len(b) <= Len(a) /\ SubSeq(a, 1, Len(b)) = b

\* the step deletes the sheet i on a request of its owner
DeletesSheet(i) ==
    \E u \in Users : \E new_id \in ReplacementIds(db, i) :
        OwnSheet(db, i, u) # <<>> /\ DeleteSheet(u, i, new_id)

\* the JSON values of the sheet's elements, in the order of their rows
SheetElements(d, sheet_id) ==
    [k \in 1..Len(ElementsOf(d, sheet_id)) |->
        Loads(ElementsOf(d, sheet_id)[k].json_blob)]

\* C25: the actions of a sheet are append-only while the sheet exists: a
\* step that is not the deletion of the sheet keeps its Action rows and can
\* only add to them; a POST /sheet/action by the owner with a non-empty
\* JSON payload answers 200, adds exactly one Action row, for that sheet
\* and holding the payload, and leaves the sheet with exactly the elements
\* of the payload, in their order, the rows of other sheets untouched; when
\* the body is not JSON, the payload is empty, or the sheet is unknown or
\* another user's, the answer is 400 or 404 and no table changes.
C25_ActionsAppendOnly ==
    [][/\ \A i \in SheetIds :
            ActionsOf(db, i) # <<>> /\ ~DeletesSheet(i) =>
                StartsWith(ActionsOf(db', i), ActionsOf(db, i))
       /\ \A u \in Users : \A is_json \in BOOLEAN : \A payload \in Payloads :
            RecordAction(u, is_json, payload) =>
                IF is_json /\ ~payload.empty
                   /\ OwnSheet(db, payload.sheet_id, u) # <<>>
                THEN /\ result'.status = 200
                     /\ db'.actions =
                           Append(db.actions,
                                  [sheet_id |-> payload.sheet_id,
                                   user_id |-> u,
                                   json_blob |-> Dumps(payload)])
                     /\ Loads(db'.actions[Len(db'.actions)].json_blob)
                           = payload
                     /\ SheetElements(db', payload.sheet_id)
                           = payload.elements
                     /\ \A i \in SheetIds \ {payload.sheet_id} :
                           ElementsOf(db', i) = ElementsOf(db, i)
                     /\ Len(db'.sheets) = Len(db.sheets)
                ELSE /\ result'.status \in {400, 404}
                     /\ db' = db
      ]_vars

\* a sheet with two actions in its history holds the one element of the
\* second payload, after the two elements of the first, while another
\* user's sheet exists
C25_Witness ==
    /\ Len(db.sheets) = 2
    /\ db.sheets[1].user_id # db.sheets[2].user_id
    /\ Len(ActionsOf(db, 1)) = 2
    /\ Loads(db.actions[1].json_blob).elements = <<"b", "a">>
    /\ Loads(db.actions[2].json_blob).elements = <<"a">>
    /\ SheetElements(db, 1) = <<"a">>
    /\ result.status = 200

\* C26: DELETE /sheet/<id> by the owner answers 200 and removes the sheet
\* with all its elements and actions, every other sheet and its rows being
\* left as they are; when it was the user's only sheet, one sheet named
\* "New Sheet" is there for the user after the request, otherwise the user
\* has one sheet less; for an unknown sheet or another user's sheet the
\* answer is 404 and no table changes; and no step of any route takes a
\* user's last sheet away.
C26_DeleteCascadesAndReplaces ==
    [][/\ \A u \in Users : SheetsOf(db, u) # <<>> => SheetsOf(db', u) # <<>>
       /\ \A u \in Users : \A i \in SheetIds :
          \A new_id \in ReplacementIds(db, i) :
            DeleteSheet(u, i, new_id) =>
                IF OwnSheet(db, i, u) # <<>>
                THEN /\ result'.status = 200
                     /\ ElementsOf(db', i) = <<>>
                     /\ ActionsOf(db', i) = <<>>
                     /\ db'.elements
                           = SelectSeq(db.elements, LAMBDA r : r.sheet_id # i)
                     /\ db'.actions
                           = SelectSeq(db.actions, LAMBDA r : r.sheet_id # i)
                     /\ StartsWith(db'.sheets,
                                   SelectSeq(db.sheets, LAMBDA r : r.id # i))
                     /\ IF Len(SheetsOf(db, u)) = 1
                        THEN /\ result'.body = "deleted_and_created"
                             /\ Len(db'.sheets) = Len(db.sheets)
                             /\ Len(SheetsOf(db', u)) = 1
                             /\ SheetsOf(db', u)[1].name = "New Sheet"
                             /\ \A k \in 1..(Len(db.sheets) - 1) :
                                   db'.sheets[k].id # SheetsOf(db', u)[1].id
                        ELSE /\ result'.body = "deleted"
                             /\ Len(db'.sheets) = Len(db.sheets) - 1
                             /\ OwnSheet(db', i, u) = <<>>
                ELSE /\ result'.status = 404
                     /\ db' = db
      ]_vars

\* a user's only sheet was deleted and replaced while another user's sheet
\* keeps its action and its elements
C26_Witness ==
    /\ result.valid
    /\ result.body = "deleted_and_created"
    /\ Len(db.sheets) = 2
    /\ db.sheets[1].user_id # db.sheets[2].user_id
    /\ db.sheets[2].name = "New Sheet"
    /\ Len(ActionsOf(db, db.sheets[1].id)) = 1
    /\ Len(ElementsOf(db, db.sheets[1].id)) = 2

----------------------------------------------------------------------------
(* _assemble_matrices with the entries of K_full *)

\* k_global = T.T @ k_local @ T.  T is block diagonal with 3x3 blocks, so
\* entry (i, j) sums T[a][i] * k[a][b] * T[b][j] over the three a of the
\* block of i and the three b of the block of j.
GlobalStiffness(k, T) ==
    Vec([i \in 0..11 |-> Vec([j \in 0..11 |->
        FSumSeq([n \in 1..9 |->
            T[3 * (i \div 3) + ((n - 1) \div 3)][i]
            * k[3 * (i \div 3) + ((n - 1) \div 3)]
               [3 * (j \div 3) + ((n - 1) % 3)]
            * T[3 * (j \div 3) + ((n - 1) % 3)][j]], 9)])])

\* k_global of the member m in the configuration xv
MemberStiffness(pts, m, xv) ==
    CHOOSE k_global \in
        {GlobalStiffness(k_local, T) :
            k_local \in {LocalStiffness(m.E, m.A, m.Iz, m.Iy, m.G, m.J,
                                        CurrentLength(pts, m, xv)).k},
            T \in {Transformation3d(
                      CurrentPositions(pts, xv)[PointIdx(pts, m.start)],
                      CurrentPositions(pts, xv)[PointIdx(pts, m.end)]).T}} :
        TRUE

\* the position of the global DOF d in the member's dof_map, 12 when the
\* member does not touch it
DofMapIndex(pts, m, d) ==
    IF d \div 6 = PointIdx(pts, m.start) THEN d % 6
    ELSE IF d \div 6 = PointIdx(pts, m.end) THEN 6 + (d % 6)
    ELSE 12

\* K_full after the member loop: every member that passes the skip tests
\* has added k_global[i, j] at (dof_map[i], dof_map[j])
Scattered(pts, mem, ks) ==
    Vec([p \in Dofs(pts) |-> Vec([q \in Dofs(pts) |->
        FSumFun([i \in DOMAIN mem |->
            IF i \in DOMAIN ks
               /\ DofMapIndex(pts, mem[i], p) < 12
               /\ DofMapIndex(pts, mem[i], q) < 12
            THEN ks[i][DofMapIndex(pts, mem[i], p)]
                      [DofMapIndex(pts, mem[i], q)]
            ELSE 0], Cardinality(DOMAIN mem) - 1)])])

StiffnessAssembled(pts, mem, xv) ==
    CHOOSE K \in
        {Scattered(pts, mem, ks) :
            ks \in {[i \in MassMembers(pts, mem, xv) |->
                       MemberStiffness(pts, mem[i], xv)]}} : TRUE

\* a constraint that zeroes the row only
RowConstrained(K, c) ==
    Vec([i \in DOMAIN K |-> Vec([j \in DOMAIN K |->
        IF i = c /\ j = c THEN PENALTY_STIFFNESS
        ELSE IF i = c THEN 0
        ELSE K[i][j]])])

\* K_full[c, c] = 1e12; K_full[c, :] = 0.0; K_full[:, c] = 0.0;
\* K_full[c, c] = 1e12
Constrained(K, c) ==
    Vec([i \in DOMAIN K |-> Vec([j \in DOMAIN K |->
        IF i = c /\ j = c THEN PENALTY_STIFFNESS
        ELSE IF i = c \/ j = c THEN 0
        ELSE K[i][j]])])

\* K_full after the first n entries of constrained_dofs were applied, one
\* after the other
RECURSIVE ConstraintsApplied(_, _, _)
ConstraintsApplied(K, cdofs, n) ==
    IF n = 0 THEN K
    ELSE CHOOSE K_full \in
            {Constrained(K1, cdofs[n]) :
                K1 \in {ConstraintsApplied(K, cdofs, n - 1)}} : TRUE

\* K_full of the AssembledMatrices that is returned
StiffnessFull(pts, mem, sups, xv) ==
    ConstraintsApplied(StiffnessAssembled(pts, mem, xv),
                       ConstrainedDofs(pts, sups, Len(sups)),
                       Len(ConstrainedDofs(pts, sups, Len(sups))))

\* two members at a right angle: point 3 is beside point 2
CornerPoints ==
    [i \in 0..2 |->
        IF i = 0 THEN Point(1, 0, 0)
        ELSE IF i = 1 THEN Point(2, 2, 1)
        ELSE [Point(3, 2, 0) EXCEPT !.x = 3]]

CornerMember == Member(2, 3, 2, 2, 3, 4)

BrokenMember ==
    [StrongMember EXCEPT !.is_broken = TRUE, !.break_time = 0,
                         !.failure_mode = "shear"]

AssemblyModels ==
    {[points |-> TwoPoints, members |-> [i \in {0} |-> StrongMember]],
     [points |-> TwoPoints, members |-> [i \in {0} |-> BrokenMember]],
     [points |-> CornerPoints,
      members |-> [i \in 0..1 |->
                      IF i = 0 THEN StrongMember ELSE CornerMember]]}

\* supports: all translations of point 1 or 2, uy and rz of point 2, no
\* flag at all, every flag of a point that there is not
Partial == Support(2, FALSE, TRUE, FALSE, FALSE, FALSE, TRUE)

Lost == Support(7, TRUE, TRUE, TRUE, TRUE, TRUE, TRUE)

SupportChoices == {Pin, Hold, Partial, Idle, Lost}

\* the support lists: up to two supports, in either order, also twice the
\* same
SupportLists ==
    {<<>>} \cup {<<a>> : a \in SupportChoices}
    \cup {<<a, b>> : a \in SupportChoices, b \in SupportChoices}

AssemblyInit ==
    /\ \E m \in AssemblyModels :
        /\ points = m.points
        /\ members = m.members
    /\ loads = <<>>
    /\ supports \in SupportLists
    /\ pre = [points |-> points, members |-> members, loads |-> loads,
              supports |-> supports]
    /\ pc = "assemble"
    /\ calls = 0
    /\ args = NoArgs
    /\ t_idx = 0
    /\ \E u \in {0, 1} : x = [d \in Dofs(points) |-> IF d = 7 THEN u ELSE 0]
    /\ v = <<>>
    /\ frames = <<>>
    /\ broken_members_this_step = <<>>
    /\ loc = NoLocals
    /\ result = NoResults
    /\ unit_system = "metric"
    /\ other = NoOther
    /\ db = NoDb

\* assembled_matrices = _assemble_matrices(model, x)
AssembleMatrices ==
    /\ pc = "assemble"
    /\ loc' = [valid |-> TRUE,
               asm |-> Assemble(points, members, loads, supports, x),
               K_members |-> StiffnessAssembled(points, members, x),
               K_full |-> StiffnessFull(points, members, supports, x)]
    /\ pc' = "assembled"
    /\ UNCHANGED <<points, members, loads, supports, calls, args, t_idx, x, v,
                   frames, broken_members_this_step, result, pre,
                   unit_system, other, db>>

AssemblyNext == AssembleMatrices

SpecAssembly == AssemblyInit /\ [][AssemblyNext]_vars

\* the DOFs that some support on an existing point flags
FlaggedDofs(pts, sups) ==
    {d \in Dofs(pts) :
        \E k \in 1..Len(sups) :
            /\ HasPoint(pts, sups[k].point)
            /\ PointIdx(pts, sups[k].point) = d \div 6
            /\ sups[k].flags[(d % 6) + 1]}

\* C27: after _assemble_matrices, every DOF c flagged by a support on an
\* existing point has K_full[c, c] = 1e12 and K_full[c, j] =
\* K_full[j, c] = 0 for all j # c, whatever the members added there and
\* in whatever order the supports are listed; the entries between two
\* DOFs that are not flagged are as the members assembled them; K_full is
\* symmetric.
C27_PenaltyRowsAndColumns ==
    pc = "assembled" =>
        /\ \A c \in FlaggedDofs(points, supports) :
              /\ loc.K_full[c][c] = PENALTY_STIFFNESS
              /\ \A j \in Dofs(points) \ {c} :
                    loc.K_full[c][j] = 0 /\ loc.K_full[j][c] = 0
        /\ \A f \in Dofs(points) \ FlaggedDofs(points, supports) :
           \A g \in Dofs(points) \ FlaggedDofs(points, supports) :
              loc.K_full[f][g] = loc.K_members[f][g]
        /\ Symmetric(loc.K_full)

\* the member between points 1 and 2 had stiffness on DOF 7 of point 2,
\* which a support flags, between DOF 6 and the flagged DOF 11, and
\* between DOFs 3 and 8, which are not flagged; two supports are listed,
\* the one on point 2 first
C27_Witness ==
    /\ pc = "assembled"
    /\ supports = <<Partial, Pin>>
    /\ loc.K_members[7][7] > 0
    /\ loc.K_members[7][1] < 0
    /\ loc.K_full[7][7] = PENALTY_STIFFNESS
    /\ loc.K_members[6][11] # 0
    /\ loc.K_full[6][11] = 0
    /\ loc.K_members[3][8] # 0
    /\ loc.K_full[3][8] = loc.K_members[3][8]

\* the number of true flags of the supports that name an existing point
RECURSIVE FlagCount(_, _, _)
FlagCount(pts, sups, n) ==
    IF n = 0 THEN 0
    ELSE FlagCount(pts, sups, n - 1)
         + (IF HasPoint(pts, sups[n].point)
            THEN Cardinality({k \in 1..6 : sups[n].flags[k]})
            ELSE 0)

\* C30: in every _assemble_matrices result free_dofs and the set of
\* constrained_dofs are disjoint and together are exactly the DOF indices
\* 0..6N-1; a DOF is constrained if and only if some support naming an
\* existing point has its flag true, so a support naming an unknown point
\* or without a true flag constrains nothing, and constrained_dofs has
\* one entry per true flag of a support on an existing point (several
\* supports on one point repeat indices).
C30_FreeAndConstrainedPartition ==
    pc = "assembled" =>
        /\ loc.asm.free_dofs \cap RangeOf(loc.asm.constrained_dofs) = {}
        /\ loc.asm.free_dofs \cup RangeOf(loc.asm.constrained_dofs)
               = 0..(6 * Cardinality(DOMAIN points) - 1)
        /\ RangeOf(loc.asm.constrained_dofs) = FlaggedDofs(points, supports)
        /\ Len(loc.asm.constrained_dofs)
               = FlagCount(points, supports, Len(supports))
        /\ (\A k \in 1..Len(supports) : supports[k] \in {Idle, Lost})
               => loc.asm.constrained_dofs = <<>>

\* twice the support with uy and rz of point 2: the two indices are
\* listed twice, the other ten DOFs of
\* the two points are free
C30_Witness ==
    /\ pc = "assembled"
    /\ points = TwoPoints
    /\ supports = <<Partial, Partial>>
    /\ loc.asm.constrained_dofs = <<7, 11, 7, 11>>
    /\ loc.asm.free_dofs = (0..11) \ {7, 11}

\* a support naming an unknown point and one without a true flag leave
\* every DOF free
C30_NothingConstrainedWitness ==
    /\ pc = "assembled"
    /\ supports = <<Lost, Idle>>
    /\ loc.asm.constrained_dofs = <<>>
    /\ loc.asm.free_dofs = Dofs(points)

----------------------------------------------------------------------------
(* The failure state of the members during and after a run *)

\* the failure fields of every member of mem agree with one another and
\* with the time steps of a run with the arguments a
FailureStateConsistent(mem, a) ==
    \A i \in DOMAIN mem :
        /\ ~mem[i].is_broken =>
              mem[i].break_time = NoTime /\ mem[i].failure_mode = "None"
        /\ mem[i].is_broken =>
              /\ mem[i].failure_mode \in FailureModes
              /\ \E k \in 1..Len(TimeSteps(a.step, a.simulation_time)) :
                    mem[i].break_time
                        = TimeSteps(a.step, a.simulation_time)[k]
              /\ 0 <= mem[i].break_time
              /\ mem[i].break_time <= a.simulation_time

\* with step times that are exact multiples of the step, the failure
\* state is consistent after every step of a solve() run (the start with
\* its reset, every loop iteration, the return)
C28_ConsistentAtExactTimes ==
    [][(pc = "running" \/ calls' # calls)
          => FailureStateConsistent(members', args')]_vars

\* a run has returned with a member that broke at its last step, which
\* was not the first
C28_ExactTimesWitness ==
    /\ pc = "returned"
    /\ Len(frames) >= 2
    /\ \E i \in DOMAIN members :
          /\ members[i].is_broken
          /\ members[i].break_time > 0
          /\ members[i].break_time = frames[Len(frames)].time
          /\ members[i].failure_mode \in FailureModes

----------------------------------------------------------------------------
(* The time steps as floating-point numbers.  Times are in units of the
   rounding error of one product k * step; the tolerance of the filter is
   larger than the rounding error and smaller than a step. *)

\* element k of np.arange(0, stop, step) is 0 + k * step, rounded: exact
\* for k = 0, 1 and the powers of two, else the neighbouring value on
\* either side too
RoundedProducts(k, step) ==
    IF k \in {0, 1, 2, 4, 8} THEN {k * step}
    ELSE {k * step - 1, k * step, k * step + 1}

\* the arrays that np.arange(0, n * step, step) may be
RECURSIVE Aranges(_, _)
Aranges(step, n) ==
    IF n = 0 THEN {<<>>}
    ELSE {Append(ts, t) : ts \in Aranges(step, n - 1),
                          t \in RoundedProducts(n - 1, step)}

\* time_steps: np.arange(0, simulation_time + step, step), then the
\* entries <= simulation_time + 1e-10
RoundedTimeSteps(step, simulation_time) ==
    {SelectSeq(ts, LAMBDA t : t <= simulation_time + TIME_TOLERANCE) :
        ts \in Aranges(step, (simulation_time + step + step - 1) \div step)}

ScheduleArgs ==
    {[step |-> st, simulation_time |-> sim, gravity |-> 0,
      initial_displacements |-> <<>>] : st \in {4, 6}, sim \in {0, 12, 18}}

\* the stresses of the one member at a step: none, or a tensile stress
\* above its strength
ScheduleStresses ==
    {[tensile |-> ten, compressive |-> 0, shear |-> 0, bending |-> 0] :
        ten \in {0, 5}}

ScheduleInit ==
    /\ points = TwoPoints
    /\ \E fs \in FailureStateChoices :
          members = [i \in {0} |->
                        [StrongMember EXCEPT
                            !.is_broken = fs.is_broken,
                            !.break_time = fs.break_time,
                            !.failure_mode = fs.failure_mode]]
    /\ loads = <<>>
    /\ supports = <<>>
    /\ pre = [points |-> points, members |-> members, loads |-> loads,
              supports |-> supports]
    /\ pc = "idle"
    /\ calls = 0
    /\ args \in ScheduleArgs
    /\ t_idx = 0
    /\ x = ZeroVec(points)
    /\ v = ZeroVec(points)
    /\ frames = <<>>
    /\ broken_members_this_step = <<>>
    /\ loc = NoLocals
    /\ result = NoResults
    /\ unit_system = "metric"
    /\ other = NoOther
    /\ db = NoDb

\* solve() up to the loop: the reset of the members and time_steps
ScheduleStart ==
    /\ pc = "idle"
    /\ members' = ResetMembers(members)
    /\ \E ts \in RoundedTimeSteps(args.step, args.simulation_time) :
          loc' = [valid |-> TRUE, time_steps |-> ts]
    /\ calls' = calls + 1
    /\ pc' = "running"
    /\ UNCHANGED <<points, loads, supports, args, t_idx, x, v, frames,
                   broken_members_this_step, result, pre, unit_system,
                   other, db>>

\* one iteration, reduced to its failure check: the stresses of the step
\* are drawn from ScheduleStresses, a broken member has none
ScheduleStep ==
    /\ pc = "running"
    /\ t_idx < Len(loc.time_steps)
    /\ \E st \in ScheduleStresses :
          members' = CheckMemberFailure(members,
                        [i \in {k \in DOMAIN members :
                                   ~members[k].is_broken} |-> st],
                        loc.time_steps[t_idx + 1])
    /\ t_idx' = t_idx + 1
    /\ UNCHANGED <<points, loads, supports, pc, calls, args, x, v, frames,
                   broken_members_this_step, loc, result, pre, unit_system,
                   other, db>>

\* every entry of time_steps was run
ScheduleReturn ==
    /\ pc = "running"
    /\ t_idx = Len(loc.time_steps)
    /\ pc' = "returned"
    /\ UNCHANGED <<points, members, loads, supports, calls, args, t_idx, x,
                   v, frames, broken_members_this_step, loc, result, pre,
                   unit_system, other, db>>

ScheduleNext == ScheduleStart \/ ScheduleStep \/ ScheduleReturn

SpecSchedule == ScheduleInit /\ [][ScheduleNext]_vars

\* C28: at every step of a solve() run and after it returns each member
\* has is_broken = False with break_time = None and failure_mode = None,
\* or is_broken = True with failure_mode one of tensile, compressive,
\* shear, bending and break_time one of the scheduled step times, hence
\* 0 <= break_time <= simulation_time.
C28_FailureStateConsistent ==
    pc \in {"running", "returned"} =>
        \A i \in DOMAIN members :
            /\ ~members[i].is_broken =>
                  /\ members[i].break_time = NoTime
                  /\ members[i].failure_mode = "None"
            /\ members[i].is_broken =>
                  /\ members[i].failure_mode \in FailureModes
                  /\ members[i].break_time \in RangeOf(loc.time_steps)
                  /\ 0 <= members[i].break_time
                  /\ members[i].break_time <= args.simulation_time

\* the member broke at the last time step, which the rounding has put
\* above simulation_time and the tolerance of the filter has kept
C28_Witness ==
    /\ pc = "returned"
    /\ members[0].is_broken
    /\ members[0].failure_mode = "tensile"
    /\ members[0].break_time = loc.time_steps[Len(loc.time_steps)]
    /\ members[0].break_time > args.simulation_time
    /\ members[0].break_time <= args.simulation_time + TIME_TOLERANCE

\* but for the upper bound the failure state is consistent: the break time
\* is a time step and at most simulation_time + 1e-10
C28_ConsistentWithinTolerance ==
    pc \in {"running", "returned"} =>
        \A i \in DOMAIN members :
            /\ ~members[i].is_broken =>
                  /\ members[i].break_time = NoTime
                  /\ members[i].failure_mode = "None"
            /\ members[i].is_broken =>
                  /\ members[i].failure_mode \in FailureModes
                  /\ members[i].break_time \in RangeOf(loc.time_steps)
                  /\ 0 <= members[i].break_time
                  /\ members[i].break_time
                        <= args.simulation_time + TIME_TOLERANCE

----------------------------------------------------------------------------
(* The order of events inside one step *)

\* the members that the step from the unprimed to the primed state broke
BrokeInStep ==
    {i \in DOMAIN members : ~members[i].is_broken /\ members'[i].is_broken}

\* C29: inside one step the order is assemble, integrate, reactions,
\* member forces and stresses, failure check, Frame.  So a member that
\* breaks at step k is listed in frame k's broken_members, frame k's
\* member_forces and member_stresses hold its entry, and the matrices
\* assembled for the reactions of frame k had its stiffness; a member that
\* was broken before the step has no entry in the member_forces and
\* member_stresses of its frame.
C29_OrderInsideStep ==
    [][(pc = "running" /\ Len(frames') = Len(frames) + 1) =>
          /\ \A i \in BrokeInStep :
                /\ \E k \in 1..Len(frames'[Len(frames')].broken_members) :
                      frames'[Len(frames')].broken_members[k] = i
                /\ i \in DOMAIN frames'[Len(frames')].member_forces
                /\ i \in DOMAIN frames'[Len(frames')].member_stresses
                /\ members'[i].break_time = frames'[Len(frames')].time
                /\ ~loc'.asm_new.raised
                /\ i \in loc'.asm_new.stiff
          /\ \A i \in DOMAIN members :
                members[i].is_broken =>
                    /\ i \notin DOMAIN frames'[Len(frames')].member_forces
                    /\ i \notin DOMAIN frames'[Len(frames')].member_stresses
          /\ frames'[Len(frames')].positions
                = Positions(points, loc'.x_new)]_vars

\* a member broke at a step that was not the last: the frame of that step
\* lists it and holds its forces and stresses, the next frame holds
\* neither
C29_Witness ==
    /\ Len(frames) >= 2
    /\ \E i \in DOMAIN members :
          /\ members[i].is_broken
          /\ members[i].break_time = frames[Len(frames) - 1].time
          /\ frames[Len(frames) - 1].broken_members = <<i>>
          /\ i \in DOMAIN frames[Len(frames) - 1].member_forces
          /\ i \in DOMAIN frames[Len(frames) - 1].member_stresses
          /\ i \notin DOMAIN frames[Len(frames)].member_forces
          /\ i \notin DOMAIN frames[Len(frames)].member_stresses
          /\ frames[Len(frames)].broken_members = <<i>>

====
